---- MODULE Spec2Model ----
(***************************************************************************)
(* MyVault: the key cache, the HMAC-based encryption layer, the security   *)
(* context (setup / login / lock / reset), the brute-force guard and the   *)
(* login screen, modelled from the TypeScript sources.                     *)
(*                                                                         *)
(* Representation.  A JavaScript string is a sequence of UTF-16 code       *)
(* units, a Uint8Array a sequence of numbers 0..255.  Base64 text, UTF-8   *)
(* encoding and decoding and HMAC are computed as the code computes them.  *)
(* The digest primitive of expo-crypto is replaced by a small positional   *)
(* hash with the same interface (string in, 32-byte digest out, Base64     *)
(* encoded); PBKDF2 runs with a scaled iteration count.  Date.now() is the *)
(* variable now, in milliseconds since the start of the run.               *)
(***************************************************************************)
EXTENDS Integers, Sequences, FiniteSets, TLC

(***************************************************************************)
(* Bounds of the model                                                     *)
(***************************************************************************)
\* PBKDF2 iteration count used by setup (150000 in the app, scaled)
Iterations == 2
\* longest short plaintext, in UTF-16 code units
MaxPlainLen == 2
\* number of clock advances in one run of the guard
MaxTicks == 5
\* largest count of failed attempts a record reaches
MaxCount == 7
\* MAX_DATA_SIZE of the encryption layer (10 MiB in the app, scaled)
MAX_DATA_SIZE == 40

(***************************************************************************)
(* Bytes and bits                                                          *)
(***************************************************************************)
RECURSIVE Pow2(_)
Pow2(n) == IF n = 0 THEN 1 ELSE 2 * Pow2(n - 1)

\* a ^ b of JavaScript on small non-negative numbers
RECURSIVE BitXor(_, _)
BitXor(a, b) ==
    IF a = 0 THEN b
    ELSE IF b = 0 THEN a
    ELSE 2 * BitXor(a \div 2, b \div 2) + ((a + b) % 2)

\* a | b
RECURSIVE BitOr(_, _)
BitOr(a, b) ==
    IF a = 0 THEN b
    ELSE IF b = 0 THEN a
    ELSE 2 * BitOr(a \div 2, b \div 2) + (IF (a % 2) + (b % 2) > 0 THEN 1 ELSE 0)

\* F at the value of v: the code passes its arguments and keeps its locals
\* by value, so v is computed once, before F reads it
Bind(v, F(_)) == CHOOSE r \in { F(x) : x \in {v} } : TRUE
Bind2(v, w, F(_, _)) == CHOOSE r \in { F(x, y) : x \in {v}, y \in {w} } : TRUE
Bind3(u, v, w, F(_, _, _)) == CHOOSE r \in { F(x, y, z) : x \in {u}, y \in {v}, z \in {w} } : TRUE

\* an array as the list of its computed elements
Computed(s) == s \o << >>

\* new Uint8Array(n) with a set at offset 0
PadTo(a, n) == Bind(a, LAMBDA x : Computed([i \in 1..n |-> IF i <= Len(x) THEN x[i] ELSE 0]))

(***************************************************************************)
(* Base64: btoa / atob                                                     *)
(***************************************************************************)
PadChar == 61

B64Char(v) ==
    IF v < 26 THEN 65 + v
    ELSE IF v < 52 THEN 97 + (v - 26)
    ELSE IF v < 62 THEN 48 + (v - 52)
    ELSE IF v = 62 THEN 43
    ELSE 47

IsB64Char(c) ==
    \/ (c >= 65 /\ c <= 90)
    \/ (c >= 97 /\ c <= 122)
    \/ (c >= 48 /\ c <= 57)
    \/ c = 43
    \/ c = 47

B64Value(c) ==
    IF c >= 65 /\ c <= 90 THEN c - 65
    ELSE IF c >= 97 /\ c <= 122 THEN c - 97 + 26
    ELSE IF c >= 48 /\ c <= 57 THEN c - 48 + 52
    ELSE IF c = 43 THEN 62
    ELSE 63

\* btoa over the characters String.fromCharCode made of the bytes
btoa(binary) ==
    LET n == Len(binary)
        groups == (n + 2) \div 3
        At(i) == IF i <= n THEN binary[i] ELSE 0
        Quad(g) ==
            << B64Char(At(3 * g - 2) \div 4),
               B64Char((At(3 * g - 2) % 4) * 16 + (At(3 * g - 1) \div 16)),
               IF 3 * g - 1 <= n
               THEN B64Char((At(3 * g - 1) % 16) * 4 + (At(3 * g) \div 64))
               ELSE PadChar,
               IF 3 * g <= n THEN B64Char(At(3 * g) % 64) ELSE PadChar >>
    IN Computed([i \in 1..(4 * groups) |-> Quad(((i - 1) \div 4) + 1)[((i - 1) % 4) + 1]])

uint8ArrayToBase64(bytes) == Bind(bytes, btoa)

IsAsciiWhitespace(c) == c \in {9, 10, 12, 13, 32}

StripWhitespace(s) ==
    LET Keep(c) == ~IsAsciiWhitespace(c)
    IN SelectSeq(s, Keep)

\* the padding removal of atob: one or two trailing '=' when the length is a
\* multiple of four
StripPadding(s) ==
    LET n == Len(s)
    IN IF n > 0 /\ n % 4 = 0
       THEN IF s[n] = PadChar
            THEN IF s[n - 1] = PadChar THEN SubSeq(s, 1, n - 2) ELSE SubSeq(s, 1, n - 1)
            ELSE s
       ELSE s

\* the decoding step of atob on the stripped text t
AtobDecode(t) ==
    LET n == Len(t)
        full == n \div 4
        rest == n % 4
        outLen == 3 * full + (IF rest = 0 THEN 0 ELSE rest - 1)
        V(i) == IF i <= n THEN B64Value(t[i]) ELSE 0
        Byte(k) ==
            LET g == (k - 1) \div 3
                j == (k - 1) % 3
            IN IF j = 0 THEN V(4 * g + 1) * 4 + (V(4 * g + 2) \div 16)
               ELSE IF j = 1 THEN (V(4 * g + 2) % 16) * 16 + (V(4 * g + 3) \div 4)
               ELSE (V(4 * g + 3) % 4) * 64 + V(4 * g + 4)
    IN IF rest = 1 \/ (\E i \in 1..n : ~IsB64Char(t[i]))
       THEN [ok |-> FALSE, bytes |-> << >>]
       ELSE [ok |-> TRUE, bytes |-> Computed([k \in 1..outLen |-> Byte(k)])]

\* atob: ok = FALSE stands for the InvalidCharacterError it throws
atob(s) == Bind(Bind(StripWhitespace(s), StripPadding), AtobDecode)

\* atob, then charCodeAt into a Uint8Array
base64ToUint8Array(base64) == atob(base64)

(***************************************************************************)
(* UTF-8: TextEncoder / TextDecoder                                        *)
(***************************************************************************)
IsHighSurrogate(u) == u >= 55296 /\ u <= 56319
IsLowSurrogate(u) == u >= 56320 /\ u <= 57343
ReplacementChar == 65533
ByteOrderMark == 65279

\* concatenation of the sequences ss[lo..hi], by halving
RECURSIVE ConcatRange(_, _, _)
ConcatRange(ss, lo, hi) ==
    IF lo > hi THEN << >>
    ELSE IF lo = hi THEN ss[lo]
    ELSE Bind((lo + hi) \div 2, LAMBDA mid :
             Bind3(ss, lo, mid, ConcatRange) \o Bind3(ss, mid + 1, hi, ConcatRange))

ConcatAll(ss) == Bind(Computed(ss), LAMBDA t : ConcatRange(t, 1, Len(t)))

\* the scalar values of a string: surrogate pairs are combined, a lone
\* surrogate becomes U+FFFD
ScalarValues(s) ==
    LET n == Len(s)
        PairAt(i) == i >= 1 /\ i < n /\ IsHighSurrogate(s[i]) /\ IsLowSurrogate(s[i + 1])
        Piece(i) ==
            IF PairAt(i) THEN << 65536 + (s[i] - 55296) * 1024 + (s[i + 1] - 56320) >>
            ELSE IF PairAt(i - 1) THEN << >>
            ELSE IF IsHighSurrogate(s[i]) \/ IsLowSurrogate(s[i]) THEN << ReplacementChar >>
            ELSE << s[i] >>
    IN ConcatAll([i \in 1..n |-> Piece(i)])

Utf8Bytes(cp) ==
    IF cp < 128 THEN << cp >>
    ELSE IF cp < 2048 THEN << 192 + (cp \div 64), 128 + (cp % 64) >>
    ELSE IF cp < 65536
         THEN << 224 + (cp \div 4096), 128 + ((cp \div 64) % 64), 128 + (cp % 64) >>
    ELSE << 240 + (cp \div 262144), 128 + ((cp \div 4096) % 64),
            128 + ((cp \div 64) % 64), 128 + (cp % 64) >>

\* new TextEncoder().encode(s)
TextEncode(s) ==
    Bind(Bind(s, ScalarValues), LAMBDA sv : ConcatAll([i \in 1..Len(sv) |-> Utf8Bytes(sv[i])]))

CodeUnits(cp) ==
    IF cp < 65536 THEN << cp >>
    ELSE << 55296 + ((cp - 65536) \div 1024), 56320 + ((cp - 65536) % 1024) >>

\* the initial state of the UTF-8 decoder
FreshDecoder == [cp |-> 0, needed |-> 0, lower |-> 128, upper |-> 191]

\* the UTF-8 decoder of the Encoding standard; st is the decoder state
\* (code point, bytes needed, lower and upper boundary of the next byte)
RECURSIVE Utf8Decode(_, _, _)
Utf8Decode(bytes, i, st) ==
    IF i > Len(bytes)
    THEN IF st.needed # 0 THEN << ReplacementChar >> ELSE << >>
    ELSE LET b == bytes[i]
         IN IF st.needed = 0
            THEN IF b <= 127 THEN << b >> \o Bind3(bytes, i + 1, FreshDecoder, Utf8Decode)
                 ELSE IF b >= 194 /\ b <= 223
                      THEN Bind3(bytes, i + 1,
                                 [FreshDecoder EXCEPT !.needed = 1, !.cp = b % 32], Utf8Decode)
                 ELSE IF b >= 224 /\ b <= 239
                      THEN Bind3(bytes, i + 1,
                                 [cp |-> b % 16, needed |-> 2,
                                  lower |-> IF b = 224 THEN 160 ELSE 128,
                                  upper |-> IF b = 237 THEN 159 ELSE 191], Utf8Decode)
                 ELSE IF b >= 240 /\ b <= 244
                      THEN Bind3(bytes, i + 1,
                                 [cp |-> b % 8, needed |-> 3,
                                  lower |-> IF b = 240 THEN 144 ELSE 128,
                                  upper |-> IF b = 244 THEN 143 ELSE 191], Utf8Decode)
                 ELSE << ReplacementChar >> \o Bind3(bytes, i + 1, FreshDecoder, Utf8Decode)
            ELSE IF b < st.lower \/ b > st.upper
                 THEN << ReplacementChar >> \o Bind3(bytes, i, FreshDecoder, Utf8Decode)
                 ELSE IF st.needed = 1
                      THEN << st.cp * 64 + (b % 64) >> \o Bind3(bytes, i + 1, FreshDecoder, Utf8Decode)
                      ELSE Bind3(bytes, i + 1,
                                 [cp |-> st.cp * 64 + (b % 64), needed |-> st.needed - 1,
                                  lower |-> 128, upper |-> 191], Utf8Decode)

\* new TextDecoder().decode(bytes): UTF-8, not fatal, a leading byte order
\* mark is dropped (ignoreBOM is false)
TextDecode(bytes) ==
    Bind(Bind3(bytes, 1, FreshDecoder, Utf8Decode), LAMBDA sv :
    Bind(IF sv # << >> /\ sv[1] = ByteOrderMark THEN Tail(sv) ELSE sv, LAMBDA body :
         ConcatAll([i \in 1..Len(body) |-> CodeUnits(body[i])])))

(***************************************************************************)
(* The digest primitive and HMAC                                           *)
(***************************************************************************)
\* SHA-256 block size and output size, in bytes
BLOCK_SIZE == 64
DigestLength == 32

\* positional accumulator over s[lo..hi], by halving: v is the value of the
\* range and m the weight of its length, both modulo the prime h.modulus
RECURSIVE DigestFold(_, _, _)
DigestFold(s, range, h) ==
    IF range.lo > range.hi THEN [v |-> 0, m |-> 1]
    ELSE IF range.lo = range.hi THEN [v |-> (s[range.lo] + 1) % h.modulus, m |-> h.mul]
    ELSE Bind((range.lo + range.hi) \div 2, LAMBDA mid :
         Bind2(Bind3(s, [lo |-> range.lo, hi |-> mid], h, DigestFold),
               Bind3(s, [lo |-> mid + 1, hi |-> range.hi], h, DigestFold),
               LAMBDA l, r : [v |-> (l.v * r.m + r.v) % h.modulus,
                              m |-> (l.m * r.m) % h.modulus]))

\* stand-in for SHA-256 over the UTF-8 bytes of the text: two positional
\* accumulators spread over DigestLength bytes
DigestBytes(text) ==
    Bind(text, LAMBDA t :
    Bind2(DigestFold(t, [lo |-> 1, hi |-> Len(t)], [mul |-> 31, modulus |-> 46337]),
          DigestFold(t, [lo |-> 1, hi |-> Len(t)], [mul |-> 37, modulus |-> 46327]),
          LAMBDA fa, fb :
    Bind2((7 * fa.m + fa.v) % 46337, (11 * fb.m + fb.v) % 46327, LAMBDA a, b :
        Computed([i \in 1..DigestLength |->
           IF i = 1 THEN a \div 256
           ELSE IF i = 2 THEN a % 256
           ELSE IF i = 3 THEN b \div 256
           ELSE IF i = 4 THEN b % 256
           ELSE (a * i + b * (DigestLength + 1 - i) + i * i) % 256]))))

\* Crypto.digestStringAsync(SHA256, data, { encoding: BASE64 }): the digest
\* of the given text, Base64 encoded
digestStringAsync(data) == uint8ArrayToBase64(DigestBytes(data))

\* the digest call of hmacSha256: the bytes are handed over as Base64 text
\* and the Base64 digest is decoded
DigestOf(bytes) == base64ToUint8Array(digestStringAsync(uint8ArrayToBase64(bytes))).bytes

\* hmacSha256(key, message), by the three digest calls of the code
hmacSha256(key, message) ==
    Bind2(key, message, LAMBDA k, m :
    Bind(PadTo(IF Len(k) > BLOCK_SIZE THEN DigestOf(k) ELSE k, BLOCK_SIZE), LAMBDA paddedKey :
    Bind(DigestOf([i \in 1..BLOCK_SIZE |-> BitXor(paddedKey[i], 54)] \o m), LAMBDA innerHashBytes :
         DigestOf([i \in 1..BLOCK_SIZE |-> BitXor(paddedKey[i], 92)] \o innerHashBytes))))

\* four-octet big-endian encoding of a counter
BE32(i) == << (i \div 16777216) % 256, (i \div 65536) % 256, (i \div 256) % 256, i % 256 >>

\* new TextEncoder().encode('encryption-key') and ('hmac-key')
InfoEncryptionKey == TextEncode(<< 101, 110, 99, 114, 121, 112, 116, 105, 111, 110, 45, 107, 101, 121 >>)
InfoHmacKey == TextEncode(<< 104, 109, 97, 99, 45, 107, 101, 121 >>)

deriveEncryptionKey(masterKey, iv) ==
    Bind(hmacSha256(iv, masterKey), LAMBDA prk : hmacSha256(prk, InfoEncryptionKey \o << 1 >>))

\* xorBytes of the encryption layer: b is repeated cyclically
xorBytes(a, b) ==
    Bind2(a, b, LAMBDA x, y :
        Computed([i \in 1..Len(x) |->
            IF Len(y) = 0 THEN x[i] ELSE BitXor(x[i], y[((i - 1) % Len(y)) + 1])]))

generateKeystream(key, iv, length) ==
    Bind3(key, iv, length, LAMBDA k, v, n :
        SubSeq(ConcatAll([i \in 1..((n + DigestLength - 1) \div DigestLength) |->
                             hmacSha256(k, v \o BE32(i - 1))]), 1, n))

(***************************************************************************)
(* PBKDF2 and the comparison of the security context                       *)
(***************************************************************************)
\* xorBytes of the security context: arrays of equal length
xorBytesEqual(a, b) == Bind2(a, b, LAMBDA x, y : Computed([i \in 1..Len(x) |-> BitXor(x[i], y[i])]))

\* the iterations j .. iterations - 1 of one PBKDF2 block: acc holds u and
\* result
RECURSIVE Pbkdf2Rounds(_, _, _)
Pbkdf2Rounds(passwordBytes, acc, left) ==
    IF left <= 0 THEN acc.result
    ELSE Bind(hmacSha256(passwordBytes, acc.u), LAMBDA nu :
             Bind3(passwordBytes, [u |-> nu, result |-> xorBytesEqual(acc.result, nu)],
                   left - 1, Pbkdf2Rounds))

deriveKey(password, salt, iterations, keyLength) ==
    Bind2(TextEncode(password), salt, LAMBDA passwordBytes, s :
        SubSeq(ConcatAll([blockNum \in 1..((keyLength + DigestLength - 1) \div DigestLength) |->
                   Bind(hmacSha256(passwordBytes, s \o BE32(blockNum)), LAMBDA u :
                       Pbkdf2Rounds(passwordBytes, [u |-> u, result |-> u], iterations - 1))]),
               1, keyLength))

CharAt(s, i) == IF i <= Len(s) THEN s[i] ELSE 0

\* result |= a[i] ^ b[i] over the positions range.lo..range.hi, by halving
RECURSIVE OrFold(_, _, _)
OrFold(a, b, range) ==
    IF range.lo > range.hi THEN 0
    ELSE IF range.lo = range.hi THEN BitXor(CharAt(a, range.lo), CharAt(b, range.lo))
    ELSE Bind((range.lo + range.hi) \div 2, LAMBDA mid :
             BitOr(Bind3(a, b, [lo |-> range.lo, hi |-> mid], OrFold),
                   Bind3(a, b, [lo |-> mid + 1, hi |-> range.hi], OrFold)))

\* variant: the lengths are not compared
timingSafeEqualNoLength(a, b) ==
    Bind2(a, b, LAMBDA x, y :
        OrFold(x, y, [lo |-> 1, hi |-> IF Len(x) > Len(y) THEN Len(x) ELSE Len(y)]) = 0)

timingSafeEqual(a, b) ==
    Bind2(a, b, LAMBDA x, y :
        BitOr(BitXor(Len(x), Len(y)),
              OrFold(x, y, [lo |-> 1, hi |-> IF Len(x) > Len(y) THEN Len(x) ELSE Len(y)])) = 0)

(***************************************************************************)
(* State                                                                   *)
(***************************************************************************)
VARIABLES
    memoryStore,   \* the key cache: memory key name -> None or Some(string)
    secureStore,   \* the platform SecureStore: item name -> None or Some(item)
    state,         \* SecurityState of the security context
    now,           \* Date.now()
    ticks,         \* number of clock advances so far
    enc,           \* the last encryptData call: its plaintext and its outcome
    dec,           \* the last decryptData call: its blob and its outcome
    bf,            \* the calls of the brute-force guard made by the last step
    ret,           \* the last handler of the session API and its result
    gate,          \* the gated biometric hook: its busy flag, error and pending call
    steps,         \* what the last call of the encryption layer did, in order
    written,       \* the plaintext last written under each item id of the vault
    pending,       \* the calls in flight: what each has read, and where it stands
    app            \* the lifecycle hook: AppState, backgroundTimeRef, time 'active' was left

vars ==
    << memoryStore, secureStore, state, now, ticks, enc, dec, bf, ret, gate, steps, written, pending,
       app >>

None == << >>
Some(v) == << v >>

(***************************************************************************)
(* The key cache (security/memory)                                         *)
(***************************************************************************)
DERIVED_KEY == "derived_key"
SESSION_TOKEN == "session_token"
MemoryKeyNames == {DERIVED_KEY, SESSION_TOKEN}

EmptyMemory == [k \in MemoryKeyNames |-> None]

setMemoryKey(mem, key, value) == [mem EXCEPT ![key] = Some(value)]

\* variant: a key "AAAA" is handed out when none is cached
getMemoryKeyDefault(mem, key) == IF mem[key] = << >> THEN << << 65, 65, 65, 65 >> >> ELSE mem[key]

\* memoryStore.get(key) ?? null
getMemoryKey(mem, key) == mem[key]

removeMemoryKey(mem, key) == [mem EXCEPT ![key] = None]

\* variant: only the session token is removed
clearAllMemoryKeepsKey(mem) == removeMemoryKey(mem, SESSION_TOKEN)

clearAllMemory(mem) == [k \in MemoryKeyNames |-> None]

\* `!key` of JavaScript on string | null
Falsy(opt) == opt = None \/ opt[1] = << >>

(***************************************************************************)
(* encryptData / decryptData (storage/encryptedStorage)                    *)
(***************************************************************************)
numRounds == 3

NoBlob == [ciphertext |-> << >>, iv |-> << >>, hmac |-> << >>, timestamp |-> 0]

\* the keystream XOR of the rounds listed, in that order
RECURSIVE ApplyRounds(_, _, _)
ApplyRounds(data, keys, rounds) ==
    IF rounds = << >> THEN data
    ELSE Bind(hmacSha256(keys.encryptionKey, << Head(rounds) >>), LAMBDA roundKey :
         Bind(generateKeystream(roundKey, keys.ivBytes, Len(data)), LAMBDA keystream :
              Bind3(xorBytes(data, keystream), keys, Tail(rounds), ApplyRounds)))

\* encryptData(plaintext) with the key cache mem, the 16 random bytes drawn
\* by generateIV and the value of Date.now()
encryptData(plaintext, mem, randomBytes, timestamp) ==
    Bind2(TextEncode(plaintext), getMemoryKey(mem, DERIVED_KEY), LAMBDA plaintextBytes, key :
    IF Len(plaintextBytes) > MAX_DATA_SIZE
    THEN [status |-> "too_large", blob |-> NoBlob]
    ELSE IF Falsy(key)
    THEN [status |-> "no_key", blob |-> NoBlob]
    ELSE Bind2(base64ToUint8Array(key[1]), uint8ArrayToBase64(randomBytes), LAMBDA keyDecoded, iv :
         IF ~keyDecoded.ok
         THEN [status |-> "invalid_character", blob |-> NoBlob]
         ELSE Bind2(keyDecoded.bytes, base64ToUint8Array(iv).bytes, LAMBDA keyBytes, ivBytes :
              Bind(deriveEncryptionKey(keyBytes, ivBytes), LAMBDA encryptionKey :
              Bind(ApplyRounds(plaintextBytes,
                               [encryptionKey |-> encryptionKey, ivBytes |-> ivBytes],
                               Computed([r \in 1..numRounds |-> r - 1])), LAMBDA encrypted :
              Bind(hmacSha256(keyBytes, InfoHmacKey), LAMBDA hmacKey :
              Bind(hmacSha256(hmacKey, ivBytes \o encrypted), LAMBDA hmac :
                   [status |-> "ok",
                    blob |-> [ciphertext |-> uint8ArrayToBase64(encrypted),
                              iv |-> iv,
                              hmac |-> uint8ArrayToBase64(hmac),
                              timestamp |-> timestamp]])))))))

\* the comparison loop of decryptData: hmacMatch |= computed[i] ^ provided[i]
hmacMatch(computedHmac, providedHmac) ==
    Bind2(computedHmac, providedHmac, LAMBDA x, y : OrFold(x, y, [lo |-> 1, hi |-> Len(x)]))

\* decryptData(encrypted) with the key cache mem
decryptData(encrypted, mem) ==
    Bind(getMemoryKey(mem, DERIVED_KEY), LAMBDA key :
    IF Falsy(key)
    THEN [status |-> "no_key", text |-> << >>]
    ELSE Bind3(base64ToUint8Array(key[1]), base64ToUint8Array(encrypted.iv),
               base64ToUint8Array(encrypted.ciphertext), LAMBDA keyDecoded, ivDecoded, ctDecoded :
         IF ~keyDecoded.ok \/ ~ivDecoded.ok \/ ~ctDecoded.ok
         THEN [status |-> "invalid_character", text |-> << >>]
         ELSE Bind3(keyDecoded.bytes, ivDecoded.bytes, ctDecoded.bytes,
                    LAMBDA keyBytes, ivBytes, ciphertextBytes :
              Bind(hmacSha256(keyBytes, InfoHmacKey), LAMBDA hmacKey :
              Bind2(hmacSha256(hmacKey, ivBytes \o ciphertextBytes),
                    base64ToUint8Array(encrypted.hmac), LAMBDA computedHmac, providedDecoded :
              IF ~providedDecoded.ok
              THEN [status |-> "invalid_character", text |-> << >>]
              ELSE IF Len(computedHmac) # Len(providedDecoded.bytes)
              THEN [status |-> "integrity", text |-> << >>]
              ELSE IF hmacMatch(computedHmac, providedDecoded.bytes) # 0
              THEN [status |-> "integrity", text |-> << >>]
              ELSE Bind(deriveEncryptionKey(keyBytes, ivBytes), LAMBDA encryptionKey :
                   Bind(ApplyRounds(ciphertextBytes,
                                    [encryptionKey |-> encryptionKey, ivBytes |-> ivBytes],
                                    Computed([r \in 1..numRounds |-> numRounds - r])),
                        LAMBDA decrypted :
                        [status |-> "ok", text |-> TextDecode(decrypted)])))))))

(***************************************************************************)
(* What a call of encryptData or decryptData does, statement by statement: *)
(* each entry names the operation and the buffer or value it yields.       *)
(* `throw` and `return` end the call.                                      *)
(***************************************************************************)
Did(do, on) == [do |-> do, on |-> on]

\* one pass of the loops at lines 207-211 and 280-284
RoundSteps ==
    << Did("hmacSha256", "roundKey"),
       Did("generateKeystream", "keystream"),
       Did("xorBytes", "data") >>

AllRounds == RoundSteps \o RoundSteps \o RoundSteps

\* variant: the session key is read before the size of the input is looked at
encryptDataStepsKeyFirst(plaintext, mem) ==
    << Did("getMemoryKey", "key"), Did("TextEncoder.encode", "plaintextBytes") >>
        \o (IF Len(TextEncode(plaintext)) > MAX_DATA_SIZE
            THEN << Did("throw", "too_large") >>
            ELSE << Did("throw", "no_key") >>)

\* encryptData, lines 183-232
encryptDataSteps(plaintext, mem) ==
    Bind2(TextEncode(plaintext), getMemoryKey(mem, DERIVED_KEY), LAMBDA plaintextBytes, key :
    << Did("TextEncoder.encode", "plaintextBytes") >> \o
    (IF Len(plaintextBytes) > MAX_DATA_SIZE
     THEN << Did("throw", "too_large") >>
     ELSE << Did("getMemoryKey", "key") >> \o
     (IF Falsy(key)
      THEN << Did("throw", "no_key") >>
      ELSE IF ~base64ToUint8Array(key[1]).ok
      THEN << Did("throw", "invalid_character") >>
      ELSE << Did("base64ToUint8Array", "keyBytes"),
              Did("getRandomBytesAsync", "iv"),
              Did("base64ToUint8Array", "ivBytes"),
              Did("deriveEncryptionKey", "encryptionKey") >>
           \o AllRounds
           \o << Did("hmacSha256", "hmacKey"),
                 Did("hmacSha256", "hmac"),
                 Did("fill", "encryptionKey"),
                 Did("fill", "keyBytes"),
                 Did("return", "blob") >>)))

\* the loop at lines 264-266: one comparison for each byte of the computed tag
CompareSteps(computedLength) == [i \in 1..computedLength |-> Did("compare", "hmacMatch")]

\* variant: the subkey is derived before the tags are compared
decryptDataStepsDeriveFirst(encrypted, mem, status) ==
    << Did("getMemoryKey", "key"),
       Did("base64ToUint8Array", "keyBytes"),
       Did("deriveEncryptionKey", "encryptionKey") >>
        \o CompareSteps(DigestLength)
        \o << Did("fill", "keyBytes"), Did("throw", status) >>

\* decryptData, lines 238-292; status is the outcome of the call, which
\* tells whether the loop found the tags equal
decryptDataSteps(encrypted, mem, status) ==
    Bind(getMemoryKey(mem, DERIVED_KEY), LAMBDA key :
    << Did("getMemoryKey", "key") >> \o
    (IF Falsy(key)
     THEN << Did("throw", "no_key") >>
     ELSE IF ~base64ToUint8Array(key[1]).ok
     THEN << Did("throw", "invalid_character") >>
     ELSE << Did("base64ToUint8Array", "keyBytes") >> \o
     (IF ~base64ToUint8Array(encrypted.iv).ok
      THEN << Did("throw", "invalid_character") >>
      ELSE << Did("base64ToUint8Array", "ivBytes") >> \o
      (IF ~base64ToUint8Array(encrypted.ciphertext).ok
       THEN << Did("throw", "invalid_character") >>
       ELSE << Did("base64ToUint8Array", "ciphertextBytes"),
               Did("hmacSha256", "hmacKey"),
               Did("hmacSha256", "computedHmac") >> \o
       Bind(base64ToUint8Array(encrypted.hmac), LAMBDA providedDecoded :
       IF ~providedDecoded.ok
       THEN << Did("throw", "invalid_character") >>
       ELSE << Did("base64ToUint8Array", "providedHmac") >> \o
       (IF DigestLength # Len(providedDecoded.bytes)
        THEN << Did("fill", "keyBytes"), Did("throw", "integrity") >>
        ELSE CompareSteps(DigestLength) \o
        (IF status # "ok"
         THEN << Did("fill", "keyBytes"), Did("throw", "integrity") >>
         ELSE << Did("deriveEncryptionKey", "encryptionKey") >>
              \o AllRounds
              \o << Did("fill", "encryptionKey"),
                    Did("fill", "keyBytes"),
                    Did("fill", "ciphertextBytes"),
                    Did("TextDecoder.decode", "plaintext"),
                    Did("return", "plaintext") >>)))))))

(***************************************************************************)
(* Inputs                                                                  *)
(***************************************************************************)
\* DEFAULT_PBKDF2_CONFIG.saltLength / keyLength, and the IV length
SaltLength == 16
KeyLength == 32
IvLength == 16

\* master passwords "vault-pass-1" and "vault-pass-2"
Passwords ==
    { << 118, 97, 117, 108, 116, 45, 112, 97, 115, 115, 45, 49 >>,
      << 118, 97, 117, 108, 116, 45, 112, 97, 115, 115, 45, 50 >> }
\* what the password field of the login screen can hold: a password, nothing,
\* one space
PasswordInputs == Passwords \cup { << >>, << 32 >> }

\* values Crypto.getRandomBytesAsync(16) can return
RandomBytes16 == { [i \in 1..IvLength |-> 15 * i], [i \in 1..IvLength |-> 255] }
Salts == { [i \in 1..SaltLength |-> 15 * i] }

\* UTF-16 code units of the plaintexts: 'A', U+00E9, a high and a low
\* surrogate, U+FEFF
Alphabet == { 65, 233, 55357, 56832, 65279 }

SeqsUpTo(S, n) == UNION { [1..k -> S] : k \in 0..n }

\* nine surrogate pairs (36 bytes of UTF-8, more than one keystream block)
LongPlaintext == [i \in 1..18 |-> IF i % 2 = 1 THEN 55357 ELSE 56832]
\* one byte more than MAX_DATA_SIZE
OversizedPlaintext == [i \in 1..(MAX_DATA_SIZE + 1) |-> 65]

Plaintexts == SeqsUpTo(Alphabet, MaxPlainLen) \cup { LongPlaintext, OversizedPlaintext }

\* plaintexts whose blobs are tampered with: a padded and an unpadded
\* ciphertext
TamperPlaintexts == { << 65 >>, << 65, 66, 67 >> }
TamperRandomBytes == { [i \in 1..IvLength |-> 15 * i] }
BlobFields == { "ciphertext", "iv", "hmac" }
TamperBits == 0..7

\* the session key setup or login puts into the key cache
SessionKeyOf(password, salt) == uint8ArrayToBase64(deriveKey(password, salt, Iterations, KeyLength))

\* what checkAvailability can report: hardware, enrolment and the type the
\* supported authentication types select
Capabilities ==
    { [hasHardware |-> FALSE, isEnrolled |-> FALSE, type |-> "none"],
      [hasHardware |-> TRUE, isEnrolled |-> FALSE, type |-> "fingerprint"],
      [hasHardware |-> TRUE, isEnrolled |-> TRUE, type |-> "fingerprint"],
      [hasHardware |-> TRUE, isEnrolled |-> TRUE, type |-> "face"] }

(***************************************************************************)
(* JSON.stringify / JSON.parse of the persisted records.  A serialized     *)
(* object is the record of its members' texts: numbers in decimal, null,   *)
(* true and false as their literals, strings between double quotes.        *)
(***************************************************************************)
RECURSIVE NumberText(_)
NumberText(n) == IF n < 10 THEN << 48 + n >> ELSE NumberText(n \div 10) \o << 48 + (n % 10) >>

\* the number whose decimal digits are text[1..n]
RECURSIVE DigitsValue(_, _)
DigitsValue(text, n) == IF n = 0 THEN 0 ELSE 10 * DigitsValue(text, n - 1) + (text[n] - 48)

ParseNumber(text) == DigitsValue(text, Len(text))

JsonNull == << 110, 117, 108, 108 >>
JsonTrue == << 116, 114, 117, 101 >>
JsonFalse == << 102, 97, 108, 115, 101 >>

\* strings of Base64 characters and lower-case words: nothing to escape
StringText(s) == << 34 >> \o s \o << 34 >>
ParseString(text) == SubSeq(text, 2, Len(text) - 1)

\* number | null
NullableNumberText(opt) == IF opt = None THEN JsonNull ELSE NumberText(opt[1])
ParseNullableNumber(text) == IF text = JsonNull THEN None ELSE Some(ParseNumber(text))

\* the type names of BiometricConfig as strings of UTF-16 code units
TypeChars(type) ==
    CASE type = "fingerprint" -> << 102, 105, 110, 103, 101, 114, 112, 114, 105, 110, 116 >>
      [] type = "face" -> << 102, 97, 99, 101 >>
      [] type = "iris" -> << 105, 114, 105, 115 >>
      [] OTHER -> << 110, 111, 110, 101 >>
TypeOfChars(chars) ==
    CHOOSE type \in { "fingerprint", "face", "iris", "none" } : TypeChars(type) = chars

StringifyAttemptData(data) ==
    [count |-> NumberText(data.count),
     firstAttemptAt |-> NumberText(data.firstAttemptAt),
     lastAttemptAt |-> NumberText(data.lastAttemptAt),
     lockedUntil |-> NullableNumberText(data.lockedUntil)]

ParseAttemptData(text) ==
    [count |-> ParseNumber(text.count),
     firstAttemptAt |-> ParseNumber(text.firstAttemptAt),
     lastAttemptAt |-> ParseNumber(text.lastAttemptAt),
     lockedUntil |-> ParseNullableNumber(text.lockedUntil)]

StringifyDerivedKeyInfo(keyInfo) ==
    [salt |-> StringText(keyInfo.salt),
     hash |-> StringText(keyInfo.hash),
     iterations |-> NumberText(keyInfo.iterations),
     createdAt |-> NumberText(keyInfo.createdAt)]

ParseDerivedKeyInfo(text) ==
    [salt |-> ParseString(text.salt),
     hash |-> ParseString(text.hash),
     iterations |-> ParseNumber(text.iterations),
     createdAt |-> ParseNumber(text.createdAt)]

StringifyBiometricConfig(config) ==
    [enabled |-> IF config.enabled THEN JsonTrue ELSE JsonFalse,
     type |-> StringText(TypeChars(config.type)),
     lastUsed |-> NullableNumberText(config.lastUsed)]

ParseBiometricConfig(text) ==
    [enabled |-> text.enabled = JsonTrue,
     type |-> TypeOfChars(ParseString(text.type)),
     lastUsed |-> ParseNullableNumber(text.lastUsed)]

(***************************************************************************)
(* The platform store (storage/secureStore)                                *)
(***************************************************************************)
STORAGE_KEYS == [DERIVED_KEY_INFO |-> "vault_derived_key_info",
                 VAULT_DATA |-> "vault_data",
                 SETTINGS |-> "vault_settings"]
ATTEMPTS_STORAGE_KEY == "vault_login_attempts"
BIOMETRIC_STORAGE_KEY == "vault_biometric_config"
BIOMETRIC_KEY_STORAGE == "vault_biometric_key"

StorageKeyNames ==
    { STORAGE_KEYS.DERIVED_KEY_INFO, STORAGE_KEYS.VAULT_DATA, STORAGE_KEYS.SETTINGS,
      ATTEMPTS_STORAGE_KEY, BIOMETRIC_STORAGE_KEY, BIOMETRIC_KEY_STORAGE }

EmptyStore == [k \in StorageKeyNames |-> None]

\* SecureStore.setItemAsync(key, value, { keychainAccessible }): an item
\* written without requireAuthentication
setSecureItem(store, key, value) ==
    [store EXCEPT ![key] = Some([value |-> value, requireAuthentication |-> FALSE])]

getSecureItem(store, key) == IF store[key] = None THEN None ELSE Some(store[key][1].value)

removeSecureItem(store, key) == [store EXCEPT ![key] = None]

clearAllSecureStorage(store) ==
    [k \in StorageKeyNames |->
        IF k \in { STORAGE_KEYS.DERIVED_KEY_INFO, STORAGE_KEYS.VAULT_DATA, STORAGE_KEYS.SETTINGS }
        THEN None ELSE store[k]]

(***************************************************************************)
(* The brute-force guard (security/bruteForce)                             *)
(***************************************************************************)
MAX_ATTEMPTS_BEFORE_LOCKOUT == 5
LOCKOUT_DURATION_MS == 300000
ATTEMPT_RESET_WINDOW_MS == 1800000
BACKOFF_BASE_MS == 1000
\* the cap of calculateBackoffDelay
BackoffCapMs == 30000
MillisPerSecond == 1000

Min(a, b) == IF a < b THEN a ELSE b
Max(a, b) == IF a > b THEN a ELSE b

\* Math.ceil(a / b) for a >= 0 and b > 0
CeilDiv(a, b) == (a + b - 1) \div b

\* `x &&` of JavaScript on number | null
Truthy(opt) == opt # None /\ opt[1] # 0

getAttemptData(store) ==
    Bind(getSecureItem(store, ATTEMPTS_STORAGE_KEY), LAMBDA serialized :
        IF serialized = None
        THEN None
        ELSE Some(ParseAttemptData(serialized[1])))

saveAttemptData(store, data) ==
    setSecureItem(store, ATTEMPTS_STORAGE_KEY, StringifyAttemptData(data))

clearAttempts(store) == removeSecureItem(store, ATTEMPTS_STORAGE_KEY)

\* variant: the exponent is attemptCount - 1
calculateBackoffDelayDoubled(attemptCount) ==
    IF attemptCount <= 1 THEN 0
    ELSE Min(BACKOFF_BASE_MS * Pow2(attemptCount - 1), BackoffCapMs)

calculateBackoffDelay(attemptCount) ==
    IF attemptCount <= 1 THEN 0
    ELSE Min(BACKOFF_BASE_MS * Pow2(attemptCount - 2), BackoffCapMs)

\* what checkBruteForce returns when no history counts
CleanResult ==
    [allowed |-> TRUE, remainingAttempts |-> MAX_ATTEMPTS_BEFORE_LOCKOUT,
     lockoutSecondsRemaining |-> None, requiredDelayMs |-> 0]

\* variant: an expired lock clears the whole record
checkBackoffForgets(store, data, t) ==
    IF Truthy(data.lockedUntil) /\ t >= data.lockedUntil[1]
    THEN [store |-> clearAttempts(store), result |-> CleanResult]
    ELSE LET remainingDelay ==
                 Max(0, calculateBackoffDelay(data.count) - (t - data.lastAttemptAt))
             remainingAttempts == Max(0, MAX_ATTEMPTS_BEFORE_LOCKOUT - data.count)
         IN [store |-> store,
             result |-> [allowed |-> remainingDelay = 0,
                         remainingAttempts |-> remainingAttempts,
                         lockoutSecondsRemaining |-> None,
                         requiredDelayMs |-> remainingDelay]]

\* checkBruteForce from "Lockout expired, clear it" on: the record is
\* stored, its window has not expired and no lock is active
checkBackoff(store, data, t) ==
    LET saved == IF Truthy(data.lockedUntil) /\ t >= data.lockedUntil[1]
                 THEN saveAttemptData(store, [data EXCEPT !.lockedUntil = None])
                 ELSE store
        requiredDelayMs == calculateBackoffDelay(data.count)
        timeSinceLastAttempt == t - data.lastAttemptAt
        remainingDelay == Max(0, requiredDelayMs - timeSinceLastAttempt)
        remainingAttempts == Max(0, MAX_ATTEMPTS_BEFORE_LOCKOUT - data.count)
    IN IF remainingDelay > 0
       THEN [store |-> saved,
             result |-> [allowed |-> FALSE, remainingAttempts |-> remainingAttempts,
                         lockoutSecondsRemaining |-> None,
                         requiredDelayMs |-> remainingDelay]]
       ELSE [store |-> saved,
             result |-> [allowed |-> TRUE, remainingAttempts |-> remainingAttempts,
                         lockoutSecondsRemaining |-> None, requiredDelayMs |-> 0]]

\* variant: the lock is looked at before the reset window
checkStoredLockFirst(store, data, t) ==
    IF Truthy(data.lockedUntil) /\ t < data.lockedUntil[1]
    THEN [store |-> store,
          result |-> [allowed |-> FALSE, remainingAttempts |-> 0,
                      lockoutSecondsRemaining |->
                          Some(CeilDiv(data.lockedUntil[1] - t, MillisPerSecond)),
                      requiredDelayMs |-> data.lockedUntil[1] - t]]
    ELSE IF t - data.firstAttemptAt > ATTEMPT_RESET_WINDOW_MS
    THEN [store |-> clearAttempts(store), result |-> CleanResult]
    ELSE checkBackoff(store, data, t)

\* checkBruteForce once a record was read: the reset window, then the lock,
\* then the backoff
checkStored(store, data, t) ==
    IF t - data.firstAttemptAt > ATTEMPT_RESET_WINDOW_MS
    THEN [store |-> clearAttempts(store), result |-> CleanResult]
    ELSE IF Truthy(data.lockedUntil) /\ t < data.lockedUntil[1]
    THEN [store |-> store,
          result |-> [allowed |-> FALSE, remainingAttempts |-> 0,
                      lockoutSecondsRemaining |->
                          Some(CeilDiv(data.lockedUntil[1] - t, MillisPerSecond)),
                      requiredDelayMs |-> data.lockedUntil[1] - t]]
    ELSE checkBackoff(store, data, t)

\* variant: the check allows every attempt
checkBruteForceAllows(store, t) == [store |-> store, result |-> CleanResult]

\* variant: a check that finds no record stores an empty one
checkBruteForceInitialises(store, t) ==
    Bind(getAttemptData(store), LAMBDA stored :
        IF stored = None
        THEN [store |-> saveAttemptData(store, [count |-> 0, firstAttemptAt |-> t,
                                                lastAttemptAt |-> t, lockedUntil |-> None]),
              result |-> CleanResult]
        ELSE checkStored(store, stored[1], t))

\* checkBruteForce() at time t: the store it leaves and the result it returns
checkBruteForce(store, t) ==
    Bind(getAttemptData(store), LAMBDA stored :
        IF stored = None
        THEN [store |-> store, result |-> CleanResult]
        ELSE checkStored(store, stored[1], t))

\* variant: the lock is set one attempt late
recordFailedAttemptLate(store, t) ==
    Bind(getAttemptData(store), LAMBDA existingData :
    Bind(IF existingData = None
            \/ t - existingData[1].firstAttemptAt > ATTEMPT_RESET_WINDOW_MS
         THEN [count |-> 1, firstAttemptAt |-> t, lastAttemptAt |-> t, lockedUntil |-> None]
         ELSE [count |-> existingData[1].count + 1,
               firstAttemptAt |-> existingData[1].firstAttemptAt,
               lastAttemptAt |-> t,
               lockedUntil |-> IF existingData[1].count + 1 > MAX_ATTEMPTS_BEFORE_LOCKOUT
                               THEN Some(t + LOCKOUT_DURATION_MS)
                               ELSE None],
         LAMBDA newData :
    [store |-> saveAttemptData(store, newData),
     result |-> [attemptCount |-> newData.count,
                 isLockedOut |-> newData.lockedUntil # None,
                 lockoutSecondsRemaining |->
                     IF newData.lockedUntil # None
                     THEN Some(CeilDiv(LOCKOUT_DURATION_MS, MillisPerSecond))
                     ELSE None]]))

\* variant: the lock is set one attempt early
recordFailedAttemptEarly(store, t) ==
    Bind(getAttemptData(store), LAMBDA existingData :
    Bind(IF existingData = None
            \/ t - existingData[1].firstAttemptAt > ATTEMPT_RESET_WINDOW_MS
         THEN [count |-> 1, firstAttemptAt |-> t, lastAttemptAt |-> t, lockedUntil |-> None]
         ELSE [count |-> existingData[1].count + 1,
               firstAttemptAt |-> existingData[1].firstAttemptAt,
               lastAttemptAt |-> t,
               lockedUntil |-> IF existingData[1].count + 2 >= MAX_ATTEMPTS_BEFORE_LOCKOUT
                               THEN Some(t + LOCKOUT_DURATION_MS)
                               ELSE None],
         LAMBDA newData :
    [store |-> saveAttemptData(store, newData),
     result |-> [attemptCount |-> newData.count,
                 isLockedOut |-> newData.lockedUntil # None,
                 lockoutSecondsRemaining |->
                     IF newData.lockedUntil # None
                     THEN Some(CeilDiv(LOCKOUT_DURATION_MS, MillisPerSecond))
                     ELSE None]]))

\* recordFailedAttempt() at time t
recordFailedAttempt(store, t) ==
    Bind(getAttemptData(store), LAMBDA existingData :
    Bind(IF existingData = None
            \/ t - existingData[1].firstAttemptAt > ATTEMPT_RESET_WINDOW_MS
         THEN [count |-> 1, firstAttemptAt |-> t, lastAttemptAt |-> t, lockedUntil |-> None]
         ELSE [count |-> existingData[1].count + 1,
               firstAttemptAt |-> existingData[1].firstAttemptAt,
               lastAttemptAt |-> t,
               lockedUntil |-> IF existingData[1].count + 1 >= MAX_ATTEMPTS_BEFORE_LOCKOUT
                               THEN Some(t + LOCKOUT_DURATION_MS)
                               ELSE None],
         LAMBDA newData :
    [store |-> saveAttemptData(store, newData),
     result |-> [attemptCount |-> newData.count,
                 isLockedOut |-> newData.lockedUntil # None,
                 lockoutSecondsRemaining |->
                     IF newData.lockedUntil # None
                     THEN Some(CeilDiv(LOCKOUT_DURATION_MS, MillisPerSecond))
                     ELSE None]]))

\* one call of the guard as the steps record it: the stored record before
\* and after, and what the call returned
GuardCall(op, t, storeBefore, outcome) ==
    [op |-> op, at |-> t, before |-> getAttemptData(storeBefore),
     after |-> getAttemptData(outcome.store), result |-> outcome.result]

ClearCall(store, t) ==
    GuardCall("clear", t, store, [store |-> clearAttempts(store), result |-> [cleared |-> TRUE]])

(***************************************************************************)
(* The security context (security/memory): each action maps the world      *)
(* w = [mem, store, state] to the world it leaves and its return value     *)
(***************************************************************************)
initialState ==
    [isInitialized |-> FALSE, isLoggedIn |-> FALSE, hasAccount |-> FALSE,
     isLoading |-> TRUE, error |-> "null"]

\* the state setup and the logins set on success
LoggedInState ==
    [isInitialized |-> TRUE, isLoggedIn |-> TRUE, hasAccount |-> TRUE,
     isLoading |-> FALSE, error |-> "null"]

\* setState(prev => ({ ...prev, isLoading: false, error })) and return false
Failed(w, error) ==
    [mem |-> w.mem, store |-> w.store,
     state |-> [w.state EXCEPT !.isLoading = FALSE, !.error = error],
     result |-> FALSE]

\* getSecureObject<DerivedKeyInfo>(STORAGE_KEYS.DERIVED_KEY_INFO)
getDerivedKeyInfo(store) ==
    Bind(getSecureItem(store, STORAGE_KEYS.DERIVED_KEY_INFO), LAMBDA serialized :
        IF serialized = None THEN None ELSE Some(ParseDerivedKeyInfo(serialized[1])))

\* getSecureObject<BiometricConfig>(BIOMETRIC_STORAGE_KEY)
getBiometricConfig(store) ==
    Bind(getSecureItem(store, BIOMETRIC_STORAGE_KEY), LAMBDA serialized :
        IF serialized = None THEN None ELSE Some(ParseBiometricConfig(serialized[1])))

initializeSecurity(w) ==
    [mem |-> w.mem, store |-> w.store,
     state |-> [isInitialized |-> TRUE, isLoggedIn |-> FALSE,
                hasAccount |-> getDerivedKeyInfo(w.store) # None,
                isLoading |-> FALSE, error |-> "null"],
     result |-> TRUE]

setupAction(w, password, saltBytes, t) ==
    Bind(uint8ArrayToBase64(deriveKey(password, saltBytes, Iterations, KeyLength)),
         LAMBDA derivedKeyBase64 :
        [mem |-> setMemoryKey(w.mem, DERIVED_KEY, derivedKeyBase64),
         store |-> setSecureItem(w.store, STORAGE_KEYS.DERIVED_KEY_INFO,
                       StringifyDerivedKeyInfo([salt |-> uint8ArrayToBase64(saltBytes),
                                                hash |-> derivedKeyBase64,
                                                iterations |-> Iterations,
                                                createdAt |-> t])),
         state |-> LoggedInState,
         result |-> TRUE])

loginAction(w, password) ==
    Bind(getDerivedKeyInfo(w.store), LAMBDA storedKeyInfo :
    IF storedKeyInfo = None
    THEN Failed(w, "No account found")
    ELSE Bind(base64ToUint8Array(storedKeyInfo[1].salt), LAMBDA salt :
         IF ~salt.ok
         THEN Failed(w, "Login failed")
         ELSE Bind(uint8ArrayToBase64(deriveKey(password, salt.bytes,
                                                storedKeyInfo[1].iterations, KeyLength)),
                   LAMBDA derivedKeyBase64 :
              IF ~timingSafeEqual(derivedKeyBase64, storedKeyInfo[1].hash)
              THEN Failed(w, "Invalid password")
              ELSE [mem |-> setMemoryKey(w.mem, DERIVED_KEY, derivedKeyBase64),
                    store |-> w.store,
                    state |-> LoggedInState,
                    result |-> TRUE])))

logoutAction(w) ==
    [mem |-> clearAllMemory(w.mem), store |-> w.store,
     state |-> [w.state EXCEPT !.isLoggedIn = FALSE, !.error = "null"],
     result |-> TRUE]

lockAction(w) ==
    [mem |-> clearAllMemory(w.mem), store |-> w.store,
     state |-> [w.state EXCEPT !.isLoggedIn = FALSE, !.error = "null"],
     result |-> TRUE]

resetAppAction(w) ==
    [mem |-> clearAllMemory(w.mem),
     store |-> removeSecureItem(
                   removeSecureItem(clearAllSecureStorage(w.store), BIOMETRIC_KEY_STORAGE),
                   BIOMETRIC_STORAGE_KEY),
     state |-> [isInitialized |-> TRUE, isLoggedIn |-> FALSE, hasAccount |-> FALSE,
                isLoading |-> FALSE, error |-> "null"],
     result |-> TRUE]

biometricLoginAction(w) ==
    Bind(getSecureItem(w.store, BIOMETRIC_KEY_STORAGE), LAMBDA storedKey :
    IF Falsy(storedKey)
    THEN Failed(w, "Biometric key not found. Please use password.")
    ELSE IF getDerivedKeyInfo(w.store) = None
    THEN Failed(w, "No account found")
    ELSE [mem |-> setMemoryKey(w.mem, DERIVED_KEY, storedKey[1]),
          store |-> w.store,
          state |-> LoggedInState,
          result |-> TRUE])

(***************************************************************************)
(* The biometric hook (security/useBiometric).  Its config is the stored   *)
(* one, which loadConfig reads when the screen mounts.                     *)
(***************************************************************************)
isEnabled(store) ==
    Bind(getBiometricConfig(store), LAMBDA config : config # None /\ config[1].enabled)

\* authenticate(): success is what the platform prompt answered
authenticate(store, success, t) ==
    Bind(getBiometricConfig(store), LAMBDA config :
        IF success /\ config # None
        THEN setSecureItem(store, BIOMETRIC_STORAGE_KEY,
                 StringifyBiometricConfig([config[1] EXCEPT !.lastUsed = Some(t)]))
        ELSE store)

enableBiometric(w, caps, success, t) ==
    IF ~caps.hasHardware \/ ~caps.isEnrolled
    THEN [store |-> w.store, result |-> FALSE]
    ELSE Bind(getMemoryKey(w.mem, DERIVED_KEY), LAMBDA derivedKey :
         IF Falsy(derivedKey)
         THEN [store |-> w.store, result |-> FALSE]
         ELSE IF ~success
         THEN [store |-> authenticate(w.store, success, t), result |-> FALSE]
         ELSE [store |-> setSecureItem(
                             setSecureItem(authenticate(w.store, success, t),
                                           BIOMETRIC_KEY_STORAGE, derivedKey[1]),
                             BIOMETRIC_STORAGE_KEY,
                             StringifyBiometricConfig([enabled |-> TRUE, type |-> caps.type,
                                                       lastUsed |-> Some(t)])),
               result |-> TRUE])

\* variant: only the config is removed
disableBiometricKeepsKey(store) == removeSecureItem(store, BIOMETRIC_STORAGE_KEY)

disableBiometric(store) ==
    removeSecureItem(removeSecureItem(store, BIOMETRIC_KEY_STORAGE), BIOMETRIC_STORAGE_KEY)

(***************************************************************************)
(* Initial values                                                          *)
(***************************************************************************)
\* Date.now() when the app starts
StartTime == 1000

NoEnc == [plaintext |-> << >>, status |-> "none", blob |-> NoBlob]
NoDec == [blob |-> NoBlob, tampered |-> FALSE, status |-> "none", text |-> << >>]
NoRet == [op |-> "none", result |-> FALSE, wasLoggedIn |-> FALSE]
\* the gated hook when it mounts: operationInProgressRef false, no error, no
\* call pending, no platform challenge showing
NoGate ==
    [busy |-> FALSE, error |-> "null", pending |-> "none", challenge |-> FALSE,
     elapsed |-> 0, key |-> << >>,
     caps |-> [hasHardware |-> FALSE, isEnrolled |-> FALSE, type |-> "none"]]

\* the lifecycle hook when it mounts: the app in the foreground,
\* backgroundTimeRef null
NoApp == [appState |-> "active", backgroundTime |-> << >>, leftActiveAt |-> << >>]

\* a fresh install: nothing cached, nothing persisted, the provider mounted
Init ==
    /\ memoryStore = EmptyMemory
    /\ secureStore = EmptyStore
    /\ state = initialState
    /\ now = StartTime
    /\ ticks = 0
    /\ enc = NoEnc
    /\ dec = NoDec
    /\ bf = << >>
    /\ ret = NoRet
    /\ gate = NoGate
    /\ steps = << >>
    /\ written = << >>
    /\ pending = << >>
    /\ app = NoApp

(***************************************************************************)
(* The session: the provider's effect and the handlers of the screens      *)
(***************************************************************************)
World == [mem |-> memoryStore, store |-> secureStore, state |-> state]

\* the routing of the index screen
OnSetupScreen == state.isInitialized /\ ~state.isLoading /\ ~state.hasAccount
OnLoginScreen ==
    state.isInitialized /\ ~state.isLoading /\ state.hasAccount /\ ~state.isLoggedIn
OnHomeScreen ==
    state.isInitialized /\ ~state.isLoading /\ state.hasAccount /\ state.isLoggedIn

\* String.prototype.trim on the password field
JsWhiteSpace ==
    { 9, 10, 11, 12, 13, 32, 160, 5760, 8232, 8233, 8239, 8287, 12288, 65279 } \cup 8192..8202
RECURSIVE TrimStart(_)
TrimStart(s) == IF s # << >> /\ Head(s) \in JsWhiteSpace THEN TrimStart(Tail(s)) ELSE s
RECURSIVE TrimEnd(_)
TrimEnd(s) ==
    IF s # << >> /\ s[Len(s)] \in JsWhiteSpace THEN TrimEnd(SubSeq(s, 1, Len(s) - 1)) ELSE s
Trim(s) == TrimEnd(TrimStart(s))

\* the step a handler makes: the world r it leaves, its return value and the
\* guard calls it made
Step(op, r, calls) ==
    /\ memoryStore' = r.mem
    /\ secureStore' = r.store
    /\ state' = r.state
    /\ bf' = calls
    /\ ret' = [op |-> op, result |-> r.result, wasLoggedIn |-> state.isLoggedIn]
    /\ UNCHANGED << now, ticks, enc, dec, gate, steps, written, pending, app >>

\* a handler that returned before calling an action
Returned(store) == [mem |-> memoryStore, store |-> store, state |-> state, result |-> FALSE]

InitializeSecurity ==
    /\ ~state.isInitialized
    /\ \E r \in { initializeSecurity(World) } : Step("initializeSecurity", r, << >>)

\* the process is killed and started again: memory is lost, the store is kept
Relaunch ==
    /\ state.isInitialized
    /\ Step("relaunch", [mem |-> EmptyMemory, store |-> secureStore,
                         state |-> initialState, result |-> TRUE], << >>)

SetupAction(password, saltBytes) ==
    /\ OnSetupScreen
    /\ \E r \in { setupAction(World, password, saltBytes, now) } : Step("setup", r, << >>)

RefreshBruteForceStatus ==
    /\ OnLoginScreen
    /\ \E c \in { checkBruteForce(secureStore, now) } :
           Step("refreshBruteForceStatus", Returned(c.store),
                << GuardCall("check", now, secureStore, c) >>)

HandleLogin(password) ==
    /\ OnLoginScreen
    /\ \E bfCheck \in { checkBruteForce(secureStore, now) } :
       \E first \in { GuardCall("check", now, secureStore, bfCheck) } :
           IF ~bfCheck.result.allowed \/ Trim(password) = << >>
           THEN Step("login", Returned(bfCheck.store), << first >>)
           ELSE \E l \in { loginAction([World EXCEPT !.store = bfCheck.store], password) } :
                IF l.result
                THEN Step("login", [l EXCEPT !.store = clearAttempts(l.store)],
                          << first, ClearCall(l.store, now) >>)
                ELSE \E rec \in { recordFailedAttempt(l.store, now) } :
                     \E status \in { checkBruteForce(rec.store, now) } :
                         Step("login", [l EXCEPT !.store = status.store],
                              << first,
                                 GuardCall("record", now, l.store, rec),
                                 GuardCall("check", now, rec.store, status) >>)

HandleBiometricLogin(biometricSuccess) ==
    /\ OnLoginScreen
    /\ isEnabled(secureStore)
    /\ \E store \in { authenticate(secureStore, biometricSuccess, now) } :
           IF biometricSuccess
           THEN \E r \in { biometricLoginAction([World EXCEPT !.store = store]) } :
                    Step("loginWithBiometric", r, << >>)
           ELSE Step("loginWithBiometric", Returned(store), << >>)

HandleLogout ==
    /\ OnHomeScreen
    /\ \E r \in { logoutAction(World) } : Step("logout", r, << >>)

\* the inactivity timer or the return from the background
AutoLock ==
    /\ state.isLoggedIn
    /\ \E r \in { lockAction(World) } : Step("lock", r, << >>)

HomeResetApp ==
    /\ OnHomeScreen
    /\ \E r \in { resetAppAction(World) } : Step("resetApp", r, << >>)

LoginResetApp ==
    /\ OnLoginScreen
    /\ \E r \in { resetAppAction([World EXCEPT !.store = clearAttempts(secureStore)]) } :
           Step("resetApp", r, << ClearCall(secureStore, now) >>)

EnableBiometric(caps, authenticated) ==
    /\ OnHomeScreen
    /\ ~isEnabled(secureStore)
    /\ \E r \in { enableBiometric(World, caps, authenticated, now) } :
           Step("enableBiometric",
                [mem |-> memoryStore, store |-> r.store, state |-> state, result |-> r.result],
                << >>)

DisableBiometric ==
    /\ OnHomeScreen
    /\ isEnabled(secureStore)
    /\ Step("disableBiometric",
            [mem |-> memoryStore, store |-> disableBiometric(secureStore), state |-> state,
             result |-> TRUE], << >>)

Next ==
    \/ InitializeSecurity
    \/ Relaunch
    \/ \E password \in Passwords, saltBytes \in Salts : SetupAction(password, saltBytes)
    \/ RefreshBruteForceStatus
    \/ \E password \in PasswordInputs : HandleLogin(password)
    \/ \E biometricSuccess \in BOOLEAN : HandleBiometricLogin(biometricSuccess)
    \/ HandleLogout
    \/ AutoLock
    \/ HomeResetApp
    \/ LoginResetApp
    \/ \E caps \in Capabilities, authenticated \in BOOLEAN : EnableBiometric(caps, authenticated)
    \/ DisableBiometric

Spec == Init /\ [][Next]_vars

(***************************************************************************)
(* The brute-force guard on its own: its three operations called at any    *)
(* time, with the clock advancing between the calls                        *)
(***************************************************************************)
\* the amounts Date.now() advances by between two calls
TickSteps == { 1000, 299000, 1500000 }

Tick(d) ==
    /\ ticks < MaxTicks
    /\ now' = now + d
    /\ ticks' = ticks + 1
    /\ UNCHANGED << memoryStore, secureStore, state, enc, dec, bf, ret, gate, steps, written, pending, app >>

\* a call of the guard: the store it leaves and the call it records
GuardStep(op, store, call) ==
    /\ secureStore' = store
    /\ bf' = << call >>
    /\ ret' = [op |-> op, result |-> TRUE, wasLoggedIn |-> state.isLoggedIn]
    /\ UNCHANGED << memoryStore, state, now, ticks, enc, dec, gate, steps, written, pending, app >>

CheckBruteForce ==
    \E c \in { checkBruteForce(secureStore, now) } :
        GuardStep("checkBruteForce", c.store, GuardCall("check", now, secureStore, c))

RecordFailedAttempt ==
    /\ \A data \in { getAttemptData(secureStore) } :
           IF data = None THEN TRUE ELSE data[1].count < MaxCount
    /\ \E r \in { recordFailedAttempt(secureStore, now) } :
           GuardStep("recordFailedAttempt", r.store, GuardCall("record", now, secureStore, r))

ClearAttempts ==
    \E store \in { clearAttempts(secureStore) } :
        GuardStep("clearAttempts", store, ClearCall(secureStore, now))

GuardNext ==
    \/ \E d \in TickSteps : Tick(d)
    \/ CheckBruteForce
    \/ RecordFailedAttempt
    \/ ClearAttempts

SpecGuard == Init /\ [][GuardNext]_vars

(***************************************************************************)
(* The session API called by any consumer of the context: setupAction is   *)
(* exported by useSecurity() and runs whatever screen is shown             *)
(***************************************************************************)
SessionSetup(password, saltBytes) ==
    /\ state.isInitialized
    /\ state.hasAccount
    /\ \E r \in { setupAction(World, password, saltBytes, now) } : Step("setup", r, << >>)

ApiNext ==
    \/ Next
    \/ \E password \in Passwords, saltBytes \in Salts : SessionSetup(password, saltBytes)

SpecApi == Init /\ [][ApiNext]_vars

(***************************************************************************)
(* The gated biometric hook, called by any consumer: the key is stored     *)
(* with requireAuthentication, one call at a time holds                    *)
(* operationInProgressRef, and the platform challenge races a timer.       *)
(* gate.pending is the call of the hook that is waiting, gate.challenge    *)
(* whether the platform prompt is showing, gate.elapsed how long the last  *)
(* challenge had been showing when its call returned.                      *)
(***************************************************************************)
BIOMETRIC_TIMEOUT_MS == 30000

\* SecureStore.setItemAsync(BIOMETRIC_KEY_STORAGE, key, { requireAuthentication: true })
storeBiometricProtectedKey(store, key) ==
    [store EXCEPT ![BIOMETRIC_KEY_STORAGE] =
                      Some([value |-> key, requireAuthentication |-> TRUE])]

\* variant: the key is returned whatever the challenge answered
getBiometricProtectedKeyUnchecked(store, challengePassed) ==
    getSecureItem(store, BIOMETRIC_KEY_STORAGE)

\* SecureStore.getItemAsync with requireAuthentication throws when the
\* platform challenge is cancelled or fails; the catch returns null
getBiometricProtectedKey(store, challengePassed) ==
    IF challengePassed THEN getSecureItem(store, BIOMETRIC_KEY_STORAGE) ELSE None

retrieveBiometricKey(store, challengePassed) ==
    getBiometricProtectedKey(store, challengePassed)

\* what LocalAuthentication.authenticateAsync resolves to: success, or the
\* error of a failure
ChallengeResults ==
    { "success", "user_cancel", "lockout", "lockout_permanent", "authentication_failed" }

\* the switch on result.error in authenticate: the error state it leaves
ChallengeError(result, error) ==
    CASE result = "user_cancel" -> error
      [] result = "lockout" -> "Too many failed attempts. Please try again later."
      [] result = "lockout_permanent" ->
             "Biometric is locked. Please use your device passcode to re-enable."
      [] OTHER -> "Authentication failed. Please try again."

\* variant: the busy check of authenticate always passes
authenticateEnteredAlways(g) == TRUE

\* the busy check at the top of authenticate
authenticateEntered(g) == ~g.busy

\* variant: the call returns with operationInProgressRef still set
ReleasedKeepsBusy(g) == [g EXCEPT !.pending = "none", !.challenge = FALSE]

\* finally { operationInProgressRef.current = false } and the call returns
Released(g) == [g EXCEPT !.busy = FALSE, !.pending = "none", !.challenge = FALSE]

\* enableBiometric from storeBiometricProtectedKey on
enableBiometricStores(store, key, caps, t) ==
    setSecureItem(storeBiometricProtectedKey(store, key), BIOMETRIC_STORAGE_KEY,
                  StringifyBiometricConfig([enabled |-> TRUE, type |-> caps.type,
                                            lastUsed |-> Some(t)]))

\* a step of the hook: the call that returned (or "pending"), its result, the
\* store and the hook state it leaves
GateStep(op, result, store, g) ==
    /\ secureStore' = store
    /\ gate' = g
    /\ bf' = << >>
    /\ ret' = [op |-> op, result |-> result, wasLoggedIn |-> state.isLoggedIn]
    /\ UNCHANGED << memoryStore, state, now, ticks, enc, dec, steps, written, pending, app >>

\* authenticate() is called
AuthenticateCall ==
    /\ state.isInitialized
    /\ IF ~authenticateEntered(gate)
       THEN GateStep("authenticate rejected", FALSE, secureStore, gate)
       ELSE GateStep("pending", FALSE, secureStore,
                     [gate EXCEPT !.busy = TRUE, !.error = "null",
                                  !.pending = "authenticate", !.challenge = TRUE,
                                  !.elapsed = 0])

\* the platform challenge resolves before the timer: authenticate returns,
\* and with it the enableBiometric that called it
AuthenticateSettles(result) ==
    /\ gate.challenge
    /\ IF result # "success"
       THEN GateStep(gate.pending, FALSE, secureStore,
                     [Released(gate) EXCEPT !.error = ChallengeError(result, gate.error)])
       ELSE \E updated \in { authenticate(secureStore, TRUE, now) } :
            IF gate.pending = "authenticate"
            THEN GateStep("authenticate", TRUE, updated, Released(gate))
            ELSE GateStep("enableBiometric", TRUE,
                          enableBiometricStores(updated, gate.key[1], gate.caps, now),
                          Released(gate))

\* the timer of BIOMETRIC_TIMEOUT_MS fires first: the race rejects
AuthenticateTimeout ==
    /\ gate.challenge
    /\ GateStep(gate.pending, FALSE, secureStore,
                [Released(gate) EXCEPT !.error = "Authentication timeout",
                                       !.elapsed = BIOMETRIC_TIMEOUT_MS])

\* enableBiometric() is called; it waits for checkAvailability
EnableBiometricCall(caps) ==
    /\ state.isInitialized
    /\ IF gate.busy
       THEN GateStep("enableBiometric rejected", FALSE, secureStore, gate)
       ELSE GateStep("pending", FALSE, secureStore,
                     [gate EXCEPT !.busy = TRUE, !.error = "null",
                                  !.pending = "enableBiometric", !.caps = caps,
                                  !.elapsed = 0])

\* enableBiometric from the result of checkAvailability to the call of
\* authenticate, which checks operationInProgressRef itself
EnableBiometricResumes ==
    /\ gate.pending = "enableBiometric"
    /\ ~gate.challenge
    /\ \E derivedKey \in { getMemoryKey(memoryStore, DERIVED_KEY) } :
       IF ~gate.caps.hasHardware
       THEN GateStep("enableBiometric", FALSE, secureStore,
                     [Released(gate) EXCEPT
                         !.error = "Biometric hardware not available on this device"])
       ELSE IF ~gate.caps.isEnrolled
       THEN GateStep("enableBiometric", FALSE, secureStore,
                     [Released(gate) EXCEPT
                         !.error = "No biometrics enrolled. Please set up biometrics in device settings."])
       ELSE IF Falsy(derivedKey)
       THEN GateStep("enableBiometric", FALSE, secureStore,
                     [Released(gate) EXCEPT !.error = "Please login with your password first"])
       ELSE IF ~authenticateEntered(gate)
       THEN GateStep("enableBiometric", FALSE, secureStore, Released(gate))
       ELSE GateStep("pending", FALSE, secureStore,
                     [gate EXCEPT !.challenge = TRUE, !.key = derivedKey, !.elapsed = 0])

\* disableBiometric() is called; it waits for SecureStore.deleteItemAsync
DisableBiometricCall ==
    /\ state.isInitialized
    /\ IF gate.busy
       THEN GateStep("disableBiometric rejected", FALSE, secureStore, gate)
       ELSE GateStep("pending", FALSE, secureStore,
                     [gate EXCEPT !.busy = TRUE, !.error = "null",
                                  !.pending = "disableBiometric"])

\* the two removals of disableBiometric
DisableBiometricResumes ==
    /\ gate.pending = "disableBiometric"
    /\ GateStep("disableBiometric", TRUE, disableBiometric(secureStore), Released(gate))

\* retrieveBiometricKey(): the result is whether a key was returned
RetrieveBiometricKey(challengePassed) ==
    /\ state.isInitialized
    /\ \E key \in { retrieveBiometricKey(secureStore, challengePassed) } :
           GateStep("retrieveBiometricKey", key # None, secureStore, gate)

\* enableBiometric of security/useBiometric called by any consumer
UngatedEnableBiometric(caps, authenticated) ==
    /\ state.isInitialized
    /\ \E r \in { enableBiometric(World, caps, authenticated, now) } :
           Step("enableBiometric",
                [mem |-> memoryStore, store |-> r.store, state |-> state, result |-> r.result],
                << >>)

\* biometricLoginAction called once the consumer's challenge succeeded
SessionBiometricLogin ==
    /\ state.isInitialized
    /\ \E r \in { biometricLoginAction(World) } : Step("loginWithBiometric", r, << >>)

\* a failed password attempt is recorded while no record is stored
FirstFailedAttempt ==
    /\ state.hasAccount
    /\ getAttemptData(secureStore) = None
    /\ RecordFailedAttempt

GateNext ==
    \/ InitializeSecurity
    \/ \E password \in Passwords, saltBytes \in Salts : SetupAction(password, saltBytes)
    \/ HandleLogout
    \/ FirstFailedAttempt
    \/ \E caps \in Capabilities, authenticated \in BOOLEAN :
           UngatedEnableBiometric(caps, authenticated)
    \/ DisableBiometric
    \/ SessionBiometricLogin
    \/ AuthenticateCall
    \/ \E result \in ChallengeResults : AuthenticateSettles(result)
    \/ AuthenticateTimeout
    \/ \E caps \in Capabilities : EnableBiometricCall(caps)
    \/ EnableBiometricResumes
    \/ DisableBiometricCall
    \/ DisableBiometricResumes
    \/ \E challengePassed \in BOOLEAN : RetrieveBiometricKey(challengePassed)

SpecGate == Init /\ [][GateNext]_vars

\* the timer set by authenticate fires, and a call that is not waiting for
\* the user goes on
SpecGateFair ==
    /\ SpecGate
    /\ WF_vars(AuthenticateTimeout)
    /\ WF_vars(EnableBiometricResumes)
    /\ WF_vars(DisableBiometricResumes)

(***************************************************************************)
(* The login flow with the clock moving: an account is set up, the user    *)
(* logs out and tries passwords on the login screen                        *)
(***************************************************************************)
\* the wait of the user on the login screen: as long as the lockout lasts,
\* which is longer than every backoff delay
LoginWaits == { LOCKOUT_DURATION_MS }

LoginWait(d) ==
    /\ OnLoginScreen
    /\ Tick(d)

\* the password the account of the login flow is set up with; the login
\* screen is given it, the other password and blank input
AccountPasswords == { CHOOSE password \in Passwords : TRUE }

LoginNext ==
    \/ InitializeSecurity
    \/ \E password \in AccountPasswords, saltBytes \in Salts :
           SetupAction(password, saltBytes)
    \/ HandleLogout
    \/ \E password \in PasswordInputs : HandleLogin(password)
    \/ \E d \in LoginWaits : LoginWait(d)

SpecLogin == Init /\ [][LoginNext]_vars

(***************************************************************************)
(* encryptData and decryptData on their own: one encryption per behaviour  *)
(* and one decryption, of the blob produced or of that blob with one bit   *)
(* of one character of a field changed                                     *)
(***************************************************************************)
\* some session key is cached, or none
CryptoInit ==
    /\ memoryStore \in { EmptyMemory } \cup
           { setMemoryKey(EmptyMemory, DERIVED_KEY, SessionKeyOf(p, s)) :
                 p \in Passwords, s \in Salts }
    /\ secureStore = EmptyStore
    /\ state = initialState
    /\ now = StartTime
    /\ ticks = 0
    /\ enc = NoEnc
    /\ dec = NoDec
    /\ bf = << >>
    /\ ret = NoRet
    /\ gate = NoGate
    /\ steps = << >>
    /\ written = << >>
    /\ pending = << >>
    /\ app = NoApp

Encrypt(plaintext, randomBytes) ==
    /\ enc.status = "none"
    /\ \E r \in { encryptData(plaintext, memoryStore, randomBytes, now) } :
           enc' = [plaintext |-> plaintext, status |-> r.status, blob |-> r.blob]
    /\ dec' = NoDec
    /\ steps' = encryptDataSteps(plaintext, memoryStore)
    /\ UNCHANGED << memoryStore, secureStore, state, now, ticks, bf, ret, gate, written, pending, app >>

EncryptData ==
    \E plaintext \in Plaintexts, randomBytes \in RandomBytes16 : Encrypt(plaintext, randomBytes)

EncryptSample ==
    \E plaintext \in TamperPlaintexts, randomBytes \in TamperRandomBytes :
        Encrypt(plaintext, randomBytes)

Decrypt(blob, tampered) ==
    /\ dec.status = "none"
    /\ \E r \in { decryptData(blob, memoryStore) } :
           /\ dec' = [blob |-> blob, tampered |-> tampered, status |-> r.status, text |-> r.text]
           /\ steps' = decryptDataSteps(blob, memoryStore, r.status)
    /\ UNCHANGED << memoryStore, secureStore, state, now, ticks, enc, bf, ret, gate, written, pending, app >>

DecryptProduced ==
    /\ enc.status = "ok"
    /\ Decrypt(enc.blob, FALSE)

\* the blob with bit `bit` of the character at pos of one field changed
FlipBit(blob, field, pos, bit) ==
    LET c == blob[field][pos]
        flipped == IF (c \div Pow2(bit)) % 2 = 1 THEN c - Pow2(bit) ELSE c + Pow2(bit)
    IN [blob EXCEPT ![field][pos] = flipped]

DecryptTampered ==
    /\ enc.status = "ok"
    /\ \E field \in BlobFields : \E pos \in 1..Len(enc.blob[field]), bit \in TamperBits :
           Decrypt(FlipBit(enc.blob, field, pos, bit), TRUE)

CryptoNext == EncryptData \/ DecryptProduced

SpecCrypto == CryptoInit /\ [][CryptoNext]_vars

TamperInit ==
    /\ CryptoInit
    /\ memoryStore = setMemoryKey(EmptyMemory, DERIVED_KEY,
                                  SessionKeyOf(CHOOSE p \in Passwords : TRUE,
                                               CHOOSE s \in Salts : TRUE))

TamperNext == EncryptSample \/ DecryptProduced \/ DecryptTampered

SpecTamper == TamperInit /\ [][TamperNext]_vars

(***************************************************************************)
(* The vault repository (vault/VaultRepository, vault/vault.types)         *)
(***************************************************************************)
MAX_NAME_LENGTH == 256
\* 10 * 1024 * 1024 in the code, as MAX_DATA_SIZE is
MAX_CONTENT_LENGTH == MAX_DATA_SIZE

\* 'MIGRATION_NEEDED'
MIGRATION_NEEDED == << 77, 73, 71, 82, 65, 84, 73, 79, 78, 95, 78, 69, 69, 68, 69, 68 >>

\* JSON.stringify of a string: QuoteJSONString of ECMAScript
HexDigit(v) == IF v < 10 THEN 48 + v ELSE 87 + v

UnicodeEscape(c) ==
    << 92, 117, HexDigit(c \div 4096), HexDigit((c \div 256) % 16),
       HexDigit((c \div 16) % 16), HexDigit(c % 16) >>

QuoteUnit(s, i) ==
    LET c == s[i]
    IN IF c = 34 THEN << 92, 34 >>
       ELSE IF c = 92 THEN << 92, 92 >>
       ELSE IF c = 8 THEN << 92, 98 >>
       ELSE IF c = 12 THEN << 92, 102 >>
       ELSE IF c = 10 THEN << 92, 110 >>
       ELSE IF c = 13 THEN << 92, 114 >>
       ELSE IF c = 9 THEN << 92, 116 >>
       ELSE IF c < 32 THEN UnicodeEscape(c)
       ELSE IF IsHighSurrogate(c)
       THEN IF i < Len(s) /\ IsLowSurrogate(s[i + 1]) THEN << c >> ELSE UnicodeEscape(c)
       ELSE IF IsLowSurrogate(c)
       THEN IF i > 1 /\ IsHighSurrogate(s[i - 1]) THEN << c >> ELSE UnicodeEscape(c)
       ELSE << c >>

QuoteJSONString(s) ==
    Bind(s, LAMBDA x : << 34 >> \o ConcatAll([i \in 1..Len(x) |-> QuoteUnit(x, i)]) \o << 34 >>)

\* JSON.parse of the characters between the quotes of a string literal
HexValue(c) == IF c >= 97 THEN c - 87 ELSE IF c >= 65 THEN c - 55 ELSE c - 48

Unescaped(c) ==
    IF c = 98 THEN 8
    ELSE IF c = 102 THEN 12
    ELSE IF c = 110 THEN 10
    ELSE IF c = 114 THEN 13
    ELSE IF c = 116 THEN 9
    ELSE c

RECURSIVE UnquoteFrom(_, _)
UnquoteFrom(text, i) ==
    IF i > Len(text) THEN << >>
    ELSE IF text[i] # 92 THEN << text[i] >> \o UnquoteFrom(text, i + 1)
    ELSE IF text[i + 1] = 117
    THEN << 4096 * HexValue(text[i + 2]) + 256 * HexValue(text[i + 3])
                + 16 * HexValue(text[i + 4]) + HexValue(text[i + 5]) >>
             \o UnquoteFrom(text, i + 6)
    ELSE << Unescaped(text[i + 1]) >> \o UnquoteFrom(text, i + 2)

\* {"content":
ContentMember == << 123, 34, 99, 111, 110, 116, 101, 110, 116, 34, 58 >>

\* variant: the string is put between the quotes as it is
StringifyContentRaw(content) == ContentMember \o << 34 >> \o content.content \o << 34, 125 >>

\* JSON.stringify(content) of a VaultItemContent without metadata
StringifyContent(content) == ContentMember \o QuoteJSONString(content.content) \o << 125 >>

\* JSON.parse(decrypted) as VaultItemContent; ok = FALSE stands for the
\* SyntaxError it throws
ParseContent(text) ==
    Bind2(text, Len(ContentMember), LAMBDA t, n :
        IF /\ Len(t) >= n + 3
           /\ SubSeq(t, 1, n) = ContentMember
           /\ t[n + 1] = 34
           /\ t[Len(t) - 1] = 34
           /\ t[Len(t)] = 125
        THEN [ok |-> TRUE, content |-> [content |-> UnquoteFrom(SubSeq(t, n + 2, Len(t) - 2), 1)]]
        ELSE [ok |-> FALSE, content |-> [content |-> << >>]])

\* JSON.stringify / JSON.parse of a VaultItem and of VaultData: an absent
\* optional member reads back as undefined, which the code tests with `!`,
\* as it tests the empty string and 0 these members hold here
StringifyVaultItem(item) ==
    [id |-> StringText(item.id),
     name |-> StringText(item.name),
     nameIv |-> StringText(item.nameIv),
     nameHmac |-> StringText(item.nameHmac),
     type |-> item.type,
     encryptedData |-> StringText(item.encryptedData),
     iv |-> StringText(item.iv),
     hmac |-> StringText(item.hmac),
     timestamp |-> NumberText(item.timestamp),
     createdAt |-> NumberText(item.createdAt),
     updatedAt |-> NumberText(item.updatedAt)]

ParseVaultItem(text) ==
    [id |-> ParseString(text.id),
     name |-> ParseString(text.name),
     nameIv |-> ParseString(text.nameIv),
     nameHmac |-> ParseString(text.nameHmac),
     type |-> text.type,
     encryptedData |-> ParseString(text.encryptedData),
     iv |-> ParseString(text.iv),
     hmac |-> ParseString(text.hmac),
     timestamp |-> ParseNumber(text.timestamp),
     createdAt |-> ParseNumber(text.createdAt),
     updatedAt |-> ParseNumber(text.updatedAt)]

StringifyVaultData(data) ==
    [metadata |-> [itemCount |-> NumberText(data.metadata.itemCount),
                   lastModified |-> NumberText(data.metadata.lastModified),
                   version |-> NumberText(data.metadata.version)],
     items |-> Computed([i \in 1..Len(data.items) |-> StringifyVaultItem(data.items[i])])]

ParseVaultData(text) ==
    [metadata |-> [itemCount |-> ParseNumber(text.metadata.itemCount),
                   lastModified |-> ParseNumber(text.metadata.lastModified),
                   version |-> ParseNumber(text.metadata.version)],
     items |-> Computed([i \in 1..Len(text.items) |-> ParseVaultItem(text.items[i])])]

DEFAULT_VAULT_METADATA == [itemCount |-> 0, lastModified |-> StartTime, version |-> 1]

\* generateId(): Date.now(), '-', characters of Math.random().toString(36)
generateId(t, suffix) == NumberText(t) \o << 45 >> \o suffix

\* validateName: error = "none" and the sanitized name, or the error thrown
IsControlChar(c) == c <= 31 \/ c = 127

validateName(name) ==
    IF name = << >>
    THEN [error |-> "name_required", name |-> << >>]
    ELSE Bind(Trim(name), LAMBDA trimmed :
         IF Len(trimmed) = 0
         THEN [error |-> "name_empty", name |-> << >>]
         ELSE IF Len(trimmed) > MAX_NAME_LENGTH
         THEN [error |-> "name_too_long", name |-> << >>]
         ELSE [error |-> "none",
               name |-> SelectSeq(trimmed, LAMBDA c : ~IsControlChar(c))])

\* validateContent: the error thrown, or "none"
validateContent(content) ==
    IF Len(content) > MAX_CONTENT_LENGTH THEN "content_too_large" ELSE "none"

loadVaultData(store) ==
    Bind(getSecureItem(store, STORAGE_KEYS.VAULT_DATA), LAMBDA serialized :
        IF serialized = None
        THEN [metadata |-> DEFAULT_VAULT_METADATA, items |-> << >>]
        ELSE ParseVaultData(serialized[1]))

\* variant: the metadata are saved as they were loaded
saveVaultDataKeepsCount(store, data, t) ==
    setSecureItem(store, STORAGE_KEYS.VAULT_DATA, StringifyVaultData(data))

saveVaultData(store, data, t) ==
    setSecureItem(store, STORAGE_KEYS.VAULT_DATA,
                  StringifyVaultData(
                      [metadata |-> [data.metadata EXCEPT !.lastModified = t,
                                                          !.itemCount = Len(data.items)],
                       items |-> data.items]))

\* items.findIndex(i => i.id === id), counted from 1; 0 when there is none
FindIndex(items, id) ==
    IF \E i \in 1..Len(items) : items[i].id = id
    THEN CHOOSE i \in 1..Len(items) :
             items[i].id = id /\ \A j \in 1..(i - 1) : items[j].id # id
    ELSE 0

\* what a call of the repository leaves: the store, "ok" or "null" with the
\* value returned or the error thrown, and the steps of the encryption layer
Outcome(store, status, value, done) ==
    [store |-> store, status |-> status, value |-> value, steps |-> done]

BlobOf(item) ==
    [ciphertext |-> item.encryptedData, iv |-> item.iv, hmac |-> item.hmac,
     timestamp |-> item.timestamp]

\* VaultRepository.create(name, content): random holds the bytes the two
\* generateIV calls draw and the characters Math.random gives the id
create(mem, store, name, content, random, t) ==
    Bind(validateName(name), LAMBDA checked :
    IF checked.error # "none"
    THEN Outcome(store, checked.error, << >>, << >>)
    ELSE IF validateContent(content.content) # "none"
    THEN Outcome(store, validateContent(content.content), << >>, << >>)
    ELSE Bind2(StringifyContent(content), checked.name, LAMBDA text, sanitizedName :
         Bind2(encryptData(text, mem, random.content, t), encryptDataSteps(text, mem),
               LAMBDA encryptedContent, first :
         IF encryptedContent.status # "ok"
         THEN Outcome(store, encryptedContent.status, << >>, first)
         ELSE Bind2(encryptData(sanitizedName, mem, random.name, t),
                    first \o encryptDataSteps(sanitizedName, mem),
                    LAMBDA encryptedName, both :
              IF encryptedName.status # "ok"
              THEN Outcome(store, encryptedName.status, << >>, both)
              ELSE Bind2([id |-> generateId(t, random.id),
                          name |-> encryptedName.blob.ciphertext,
                          nameIv |-> encryptedName.blob.iv,
                          nameHmac |-> encryptedName.blob.hmac,
                          type |-> "other",
                          encryptedData |-> encryptedContent.blob.ciphertext,
                          iv |-> encryptedContent.blob.iv,
                          hmac |-> encryptedContent.blob.hmac,
                          timestamp |-> encryptedContent.blob.timestamp,
                          createdAt |-> t,
                          updatedAt |-> t],
                         loadVaultData(store), LAMBDA item, vaultData :
                   Outcome(saveVaultData(store,
                                         [vaultData EXCEPT !.items = Append(@, item)], t),
                           "ok", item, both))))))

\* variant: the stored fields are handed to decryptData without a look at
\* the format of the item
readDecryptsFirst(mem, store, id) ==
    Bind(loadVaultData(store), LAMBDA vaultData :
    Bind(FindIndex(vaultData.items, id), LAMBDA index :
        IF index = 0
        THEN Outcome(store, "null", << >>, << >>)
        ELSE Bind(decryptData(BlobOf(vaultData.items[index]), mem), LAMBDA decrypted :
                 Outcome(store, decrypted.status, << >>,
                         decryptDataSteps(BlobOf(vaultData.items[index]), mem,
                                          decrypted.status)))))

\* VaultRepository.read(id)
read(mem, store, id) ==
    IF id = << >>
    THEN Outcome(store, "invalid_id", << >>, << >>)
    ELSE Bind(loadVaultData(store), LAMBDA vaultData :
         Bind(FindIndex(vaultData.items, id), LAMBDA index :
         IF index = 0
         THEN Outcome(store, "null", << >>, << >>)
         ELSE Bind(vaultData.items[index], LAMBDA item :
              IF item.hmac = << >> \/ item.timestamp = 0
              THEN Outcome(store, "outdated", << >>, << >>)
              ELSE IF item.hmac = MIGRATION_NEEDED
              THEN Outcome(store, "migration_needed", << >>, << >>)
              ELSE Bind(decryptData(BlobOf(item), mem), LAMBDA decrypted :
                   Bind(decryptDataSteps(BlobOf(item), mem, decrypted.status), LAMBDA done :
                   IF decrypted.status # "ok"
                   THEN Outcome(store, decrypted.status, << >>, done)
                   ELSE Bind(ParseContent(decrypted.text), LAMBDA parsed :
                        IF parsed.ok
                        THEN Outcome(store, "ok", parsed.content, done)
                        ELSE Outcome(store, "syntax_error", << >>, done)))))))

\* VaultRepository.update(id, content, name); name = << >> when it is left
\* out or empty
update(mem, store, id, content, name, random, t) ==
    IF id = << >>
    THEN Outcome(store, "invalid_id", << >>, << >>)
    ELSE IF validateContent(content.content) # "none"
    THEN Outcome(store, validateContent(content.content), << >>, << >>)
    ELSE Bind(loadVaultData(store), LAMBDA vaultData :
         Bind(FindIndex(vaultData.items, id), LAMBDA index :
         IF index = 0
         THEN Outcome(store, "null", << >>, << >>)
         ELSE Bind(StringifyContent(content), LAMBDA text :
              Bind2(encryptData(text, mem, random.content, t), encryptDataSteps(text, mem),
                    LAMBDA encrypted, first :
              IF encrypted.status # "ok"
              THEN Outcome(store, encrypted.status, << >>, first)
              ELSE Bind([vaultData.items[index] EXCEPT
                             !.encryptedData = encrypted.blob.ciphertext,
                             !.iv = encrypted.blob.iv,
                             !.hmac = encrypted.blob.hmac,
                             !.timestamp = encrypted.blob.timestamp,
                             !.updatedAt = t], LAMBDA item :
                   IF name = << >>
                   THEN Outcome(saveVaultData(store,
                                    [vaultData EXCEPT !.items[index] = item], t),
                                "ok", item, first)
                   ELSE Bind(validateName(name), LAMBDA checked :
                        IF checked.error # "none"
                        THEN Outcome(store, checked.error, << >>, first)
                        ELSE Bind2(encryptData(checked.name, mem, random.name, t),
                                   first \o encryptDataSteps(checked.name, mem),
                                   LAMBDA encryptedName, both :
                             IF encryptedName.status # "ok"
                             THEN Outcome(store, encryptedName.status, << >>, both)
                             ELSE Bind([item EXCEPT
                                            !.name = encryptedName.blob.ciphertext,
                                            !.nameIv = encryptedName.blob.iv,
                                            !.nameHmac = encryptedName.blob.hmac],
                                       LAMBDA renamed :
                                  Outcome(saveVaultData(store,
                                              [vaultData EXCEPT !.items[index] = renamed], t),
                                          "ok", renamed, both)))))))))

\* VaultRepository.delete(id)
delete(store, id, t) ==
    Bind(loadVaultData(store), LAMBDA vaultData :
    Bind(SelectSeq(vaultData.items, LAMBDA i : i.id # id), LAMBDA kept :
        IF Len(kept) = Len(vaultData.items)
        THEN Outcome(store, "ok", FALSE, << >>)
        ELSE Outcome(saveVaultData(store, [vaultData EXCEPT !.items = kept], t),
                     "ok", TRUE, << >>)))

\* VaultRepository.list()
list(store) == Outcome(store, "ok", loadVaultData(store).items, << >>)

\* variant: an item is marked, and its name is left as it is
MigrateItemMarksOnly(item, mem, random, t) ==
    IF ~(item.hmac = << >> \/ item.timestamp = 0 \/ item.nameIv = << >>)
    THEN [item |-> item, migrated |-> FALSE, steps |-> << >>]
    ELSE [item |-> [item EXCEPT !.hmac = MIGRATION_NEEDED, !.timestamp = t],
          migrated |-> TRUE,
          steps |-> << >>]

\* variant: the marker is put on every item, and taken off where it is found
MigrateItemToggles(item, mem, random, t) ==
    [item |-> [item EXCEPT !.hmac = IF @ = MIGRATION_NEEDED THEN << >> ELSE MIGRATION_NEEDED,
                           !.timestamp = t],
     migrated |-> TRUE,
     steps |-> << >>]

\* one pass of the loop of migrateToSecureFormat over an item: the item it
\* leaves, whether it was counted, and the steps of the encryption layer
MigrateItem(item, mem, random, t) ==
    IF ~(item.hmac = << >> \/ item.timestamp = 0 \/ item.nameIv = << >>)
    THEN [item |-> item, migrated |-> FALSE, steps |-> << >>]
    ELSE Bind2(IF item.nameIv = << >>
               THEN encryptData(item.name, mem, random.name, t)
               ELSE [status |-> "ok", blob |-> NoBlob],
               IF item.nameIv = << >> THEN encryptDataSteps(item.name, mem) ELSE << >>,
               LAMBDA encryptedName, done :
         IF encryptedName.status # "ok"
         THEN [item |-> item, migrated |-> FALSE, steps |-> done]
         ELSE Bind(IF item.nameIv = << >>
                   THEN [item EXCEPT !.name = encryptedName.blob.ciphertext,
                                     !.nameIv = encryptedName.blob.iv,
                                     !.nameHmac = encryptedName.blob.hmac]
                   ELSE item, LAMBDA named :
              [item |-> IF named.hmac = << >> \/ named.timestamp = 0
                        THEN [named EXCEPT !.hmac = MIGRATION_NEEDED, !.timestamp = t]
                        ELSE named,
               migrated |-> TRUE,
               steps |-> done]))

\* VaultRepository.migrateToSecureFormat()
migrateToSecureFormat(mem, store, random, t) ==
    Bind(loadVaultData(store), LAMBDA vaultData :
    Bind(Computed([i \in 1..Len(vaultData.items) |->
                      MigrateItem(vaultData.items[i], mem, random, t)]), LAMBDA passes :
    Bind(Cardinality({ i \in 1..Len(passes) : passes[i].migrated }), LAMBDA migratedCount :
        Outcome(IF migratedCount > 0
                THEN saveVaultData(store,
                         [vaultData EXCEPT
                              !.items = Computed([i \in 1..Len(passes) |-> passes[i].item])], t)
                ELSE store,
                "ok", migratedCount,
                ConcatAll(Computed([i \in 1..Len(passes) |-> passes[i].steps]))))))

(***************************************************************************)
(* The repository in use: the app starts on an empty store or on the store *)
(* of an earlier release, whose vault holds an item of the old format; the *)
(* user sets up or logs in, and the repository is called.  A call that     *)
(* leaves the vault as it found it ends the behaviour: the calls after it  *)
(* find what they would have found without it.                             *)
(***************************************************************************)
\* an item written before names were encrypted and tags were stored:
\* its id "7-old", its name "Bank"
LegacyItem ==
    [id |-> << 55, 45, 111, 108, 100 >>,
     name |-> << 66, 97, 110, 107 >>,
     nameIv |-> << >>,
     nameHmac |-> << >>,
     type |-> "other",
     encryptedData |-> uint8ArrayToBase64(<< 1, 2, 3 >>),
     iv |-> uint8ArrayToBase64([i \in 1..IvLength |-> i]),
     hmac |-> << >>,
     timestamp |-> 0,
     createdAt |-> StartTime - 1,
     updatedAt |-> StartTime - 1]

\* the store an earlier release left: the account and the vault
UpgradedStore ==
    saveVaultData(setupAction([mem |-> EmptyMemory, store |-> EmptyStore,
                               state |-> initialState],
                              CHOOSE password \in AccountPasswords : TRUE,
                              CHOOSE saltBytes \in Salts : TRUE, StartTime - 1).store,
                  [metadata |-> DEFAULT_VAULT_METADATA, items |-> << LegacyItem >>],
                  StartTime - 1)

VaultInit ==
    /\ memoryStore = EmptyMemory
    /\ secureStore \in { EmptyStore, UpgradedStore }
    /\ state = initialState
    /\ now = StartTime
    /\ ticks = 0
    /\ enc = NoEnc
    /\ dec = NoDec
    /\ bf = << >>
    /\ ret = NoRet
    /\ gate = NoGate
    /\ steps = << >>
    /\ written = << >>
    /\ pending = << >>
    /\ app = NoApp

\* names: " Vi", BEL, "sa" (trimmed and sanitized to "Visa"), one space,
\* nothing, and one character more than MAX_NAME_LENGTH
LongName == [i \in 1..(MAX_NAME_LENGTH + 1) |-> 78]
VaultNames == { << 32, 86, 105, 7, 115, 97 >>, << 32 >>, << >>, LongName }

\* contents: a quote, a lone surrogate, U+00E9 and U+FEFF; a content within
\* MAX_CONTENT_LENGTH whose JSON text exceeds MAX_DATA_SIZE; one too long
BulkyContent == [i \in 1..(MAX_CONTENT_LENGTH - 10) |-> 65]
CreatedContents == { << 34, 55357, 233, 65279 >>, BulkyContent, OversizedPlaintext }
UpdatedContents == { << 66 >>, OversizedPlaintext }
UpdatedNames == { << >>, << 32 >> }

\* what the random sources give one call: the bytes of the two IVs and the
\* characters Math.random gives the id ("k3x")
VaultRandom ==
    { [content |-> [i \in 1..IvLength |-> 15 * i],
       name |-> [i \in 1..IvLength |-> 16 * i - 1],
       id |-> << 107, 51, 120 >>] }

\* ids handed to the repository: those of the vault, none, and a stranger
StoredIds == { loadVaultData(secureStore).items[i].id :
                   i \in 1..Len(loadVaultData(secureStore).items) }
CalledIds == StoredIds \cup { << >>, << 48 >> }

VaultOps == { "create", "read", "update", "delete", "list", "migrateToSecureFormat" }

\* no call of the repository has ended the behaviour, and the stored vault
\* has not been altered from outside
VaultOpen == ret.op # "altered" /\ (ret.op \in VaultOps => ret.changed)

\* the plaintext written under id: name is None when no call gave a name;
\* intact until the stored item is altered from outside
WrittenUnder(id, content, name) ==
    IF \E i \in 1..Len(written) : written[i].id = id
    THEN [i \in 1..Len(written) |->
             IF written[i].id = id
             THEN [id |-> id, content |-> content,
                   name |-> IF name = None THEN written[i].name ELSE name,
                   intact |-> TRUE]
             ELSE written[i]]
    ELSE Append(written, [id |-> id, content |-> content, name |-> name, intact |-> TRUE])

VaultCall(op, args, r, ghost) ==
    /\ secureStore' = r.store
    /\ ret' = [op |-> op, args |-> args, status |-> r.status, value |-> r.value,
               changed |-> r.store # secureStore]
    /\ steps' = r.steps
    /\ written' = ghost
    /\ bf' = << >>
    /\ UNCHANGED << memoryStore, state, now, ticks, enc, dec, gate, pending, app >>

VaultCreate(name, content, random) ==
    /\ VaultOpen
    /\ generateId(now, random.id) \notin StoredIds
    /\ \E r \in { create(memoryStore, secureStore, name, [content |-> content], random, now) } :
           VaultCall("create", [name |-> name, content |-> content], r,
                     IF r.status = "ok"
                     THEN WrittenUnder(r.value.id, content, Some(validateName(name).name))
                     ELSE written)

VaultRead(id) ==
    /\ IF ret.op = "altered" THEN TRUE ELSE VaultOpen
    /\ \E r \in { read(memoryStore, secureStore, id) } :
           VaultCall("read", [id |-> id], r, written)

VaultUpdate(id, content, name, random) ==
    /\ VaultOpen
    /\ \E r \in { update(memoryStore, secureStore, id, [content |-> content], name,
                         random, now) } :
           VaultCall("update", [id |-> id, content |-> content, name |-> name], r,
                     IF r.status = "ok"
                     THEN WrittenUnder(id, content,
                                       IF name = << >> THEN None
                                       ELSE Some(validateName(name).name))
                     ELSE written)

VaultDelete(id) ==
    /\ VaultOpen
    /\ \E r \in { delete(secureStore, id, now) } :
           VaultCall("delete", [id |-> id], r,
                     SelectSeq(written, LAMBDA w : w.id # id))

VaultList ==
    /\ VaultOpen
    /\ VaultCall("list", << >>, list(secureStore), written)

VaultMigrate(random) ==
    /\ VaultOpen
    /\ \E r \in { migrateToSecureFormat(memoryStore, secureStore, random, now) } :
           VaultCall("migrateToSecureFormat", << >>, r, written)

\* the stored vault altered outside the app, in an item that carries a tag:
\* another ciphertext, a tag that is not Base64, or the encrypted name put
\* in the place of the encrypted content
AlterationKinds == { "ciphertext", "tag", "name for content" }

Altered(item, kind) ==
    IF kind = "ciphertext"
    THEN [item EXCEPT !.encryptedData = uint8ArrayToBase64(<< 0 >>)]
    ELSE IF kind = "tag"
    THEN [item EXCEPT !.hmac = << 95 >> \o @]
    ELSE [item EXCEPT !.encryptedData = item.name, !.iv = item.nameIv, !.hmac = item.nameHmac]

VaultAltered(index, kind) ==
    /\ VaultOpen
    /\ \E vaultData \in { loadVaultData(secureStore) } :
           /\ index \in 1..Len(vaultData.items)
           /\ vaultData.items[index].hmac \notin { << >>, MIGRATION_NEEDED }
           /\ vaultData.items[index].nameHmac # << >>
           /\ secureStore' =
                  setSecureItem(secureStore, STORAGE_KEYS.VAULT_DATA,
                      StringifyVaultData(
                          [vaultData EXCEPT
                               !.items[index] = Altered(vaultData.items[index], kind)]))
           /\ ret' = [op |-> "altered", args |-> [id |-> vaultData.items[index].id],
                      status |-> kind, value |-> << >>, changed |-> TRUE]
           /\ written' = [i \in 1..Len(written) |->
                              IF written[i].id = vaultData.items[index].id
                              THEN [written[i] EXCEPT !.intact = FALSE]
                              ELSE written[i]]
    /\ steps' = << >>
    /\ bf' = << >>
    /\ UNCHANGED << memoryStore, state, now, ticks, enc, dec, gate, pending, app >>

VaultNext ==
    \/ VaultOpen /\ InitializeSecurity
    \/ VaultOpen /\ \E password \in AccountPasswords, saltBytes \in Salts :
                        SetupAction(password, saltBytes)
    \/ VaultOpen /\ HandleLogout
    \/ VaultOpen /\ \E password \in AccountPasswords : HandleLogin(password)
    \/ \E name \in VaultNames, content \in CreatedContents, random \in VaultRandom :
           VaultCreate(name, content, random)
    \/ \E id \in CalledIds : VaultRead(id)
    \/ \E id \in CalledIds, content \in UpdatedContents, name \in UpdatedNames,
          random \in VaultRandom : VaultUpdate(id, content, name, random)
    \/ \E id \in CalledIds : VaultDelete(id)
    \/ VaultList
    \/ \E random \in VaultRandom : VaultMigrate(random)
    \/ \E index \in 1..2, kind \in AlterationKinds : VaultAltered(index, kind)

SpecVault == VaultInit /\ [][VaultNext]_vars

(***************************************************************************)
(* The paths through encryptData and decryptData: a short and an oversized *)
(* plaintext, with and without a session key, and the decryption of the    *)
(* blob produced, intact or with one bit changed                           *)
(***************************************************************************)
PathPlaintexts == { << 65 >>, OversizedPlaintext }

PathInit ==
    /\ CryptoInit
    /\ memoryStore \in
           { EmptyMemory,
             setMemoryKey(EmptyMemory, DERIVED_KEY,
                          SessionKeyOf(CHOOSE p \in Passwords : TRUE,
                                       CHOOSE s \in Salts : TRUE)) }

EncryptPath ==
    \E plaintext \in PathPlaintexts, randomBytes \in TamperRandomBytes :
        Encrypt(plaintext, randomBytes)

\* decryptData called with nothing cached, on a blob of an earlier session
DecryptWithoutKey ==
    /\ getMemoryKey(memoryStore, DERIVED_KEY) = None
    /\ Decrypt(NoBlob, FALSE)

PathNext == EncryptPath \/ DecryptProduced \/ DecryptTampered \/ DecryptWithoutKey

SpecPaths == PathInit /\ [][PathNext]_vars

(***************************************************************************)
(* Properties                                                              *)
(***************************************************************************)
\* C1: decryptData applied to the blob encryptData returned for M, under the
\* same session key, returns exactly M
C1_RoundTrip ==
    (dec.status # "none" /\ ~dec.tampered /\ dec.blob = enc.blob)
        => (dec.status = "ok" /\ dec.text = enc.plaintext)

\* C2: a produced blob with one bit of its ciphertext, iv or hmac changed
\* makes decryptData throw the integrity error and never yields a plaintext
C2_TamperDetected ==
    dec.tampered => dec.status = "integrity"

\* text holds part as a substring
Contains(text, part) ==
    \E i \in 0..(Len(text) - Len(part)) : SubSeq(text, i + 1, i + Len(part)) = part

\* the items holding a serialized object; the others hold a string
ObjectItems ==
    { STORAGE_KEYS.DERIVED_KEY_INFO, STORAGE_KEYS.VAULT_DATA, STORAGE_KEYS.SETTINGS,
      ATTEMPTS_STORAGE_KEY, BIOMETRIC_STORAGE_KEY }

ItemHolds(k, part) ==
    IF k \in ObjectItems
    THEN \E f \in DOMAIN secureStore[k][1].value : Contains(secureStore[k][1].value[f], part)
    ELSE Contains(secureStore[k][1].value, part)

\* C3: no item of the persistent store written without the authentication
\* gate equals or contains the session key the key cache holds
C3_NoKeyInGeneralStore ==
    \A k \in StorageKeyNames :
        (/\ getMemoryKey(memoryStore, DERIVED_KEY) # None
         /\ secureStore[k] # None
         /\ ~secureStore[k][1].requireAuthentication)
            => ~ItemHolds(k, getMemoryKey(memoryStore, DERIVED_KEY)[1])

C5_ResetRemovesAll ==
    ret.op = "resetApp" => \A k \in StorageKeyNames : secureStore[k] = None

\* the calls of the guard made by the last step
CheckCalls == { i \in 1..Len(bf) : bf[i].op = "check" }
RecordCalls == { i \in 1..Len(bf) : bf[i].op = "record" }

\* the call found a record stored
HasRecord(call) == call.before # None
\* the reset window of the record the call found has expired
WindowExpired(call) == call.at - call.before[1].firstAttemptAt > ATTEMPT_RESET_WINDOW_MS
\* the call was made before the lockedUntil of the record it found
BeforeLockedUntil(call) ==
    call.before[1].lockedUntil # None /\ call.at < call.before[1].lockedUntil[1]
\* the lockedUntil of the record the call found has elapsed
LockElapsed(call) ==
    call.before[1].lockedUntil # None /\ call.at >= call.before[1].lockedUntil[1]

\* the fifth recordFailedAttempt of a record, made within the reset window,
\* sets lockedUntil to its time plus five minutes
FifthAttemptLocks ==
    \A i \in RecordCalls :
        (HasRecord(bf[i]) /\ ~WindowExpired(bf[i]) /\ bf[i].before[1].count = 4)
            => /\ bf[i].after # None
               /\ bf[i].after[1].count = 5
               /\ bf[i].after[1].lockedUntil = Some(bf[i].at + 300000)
               /\ bf[i].result.isLockedOut

\* the check is refused with the remaining lockout seconds
RefusedByLock(call) ==
    /\ ~call.result.allowed
    /\ call.result.lockoutSecondsRemaining =
           Some(CeilDiv(call.before[1].lockedUntil[1] - call.at, 1000))

\* C6 as stated: the fifth attempt locks for five minutes, and every check
\* made before lockedUntil is refused with the remaining lockout seconds
C6_LockedUntilElapsed ==
    /\ FifthAttemptLocks
    /\ \A i \in CheckCalls :
           (HasRecord(bf[i]) /\ BeforeLockedUntil(bf[i])) => RefusedByLock(bf[i])

\* C6, amended: the fifth attempt locks for five minutes, and every check
\* made before lockedUntil and while the reset window has not expired is
\* refused with the remaining lockout seconds
C6_LockedWithinWindow ==
    /\ FifthAttemptLocks
    /\ \A i \in CheckCalls :
           (HasRecord(bf[i]) /\ ~WindowExpired(bf[i]) /\ BeforeLockedUntil(bf[i]))
               => RefusedByLock(bf[i])

\* a check refused by the lock the fifth attempt set
C6_Witness ==
    \E i \in CheckCalls :
        /\ HasRecord(bf[i])
        /\ bf[i].before[1].count = 5
        /\ ~WindowExpired(bf[i])
        /\ BeforeLockedUntil(bf[i])
        /\ ~bf[i].result.allowed

\* C7: a check that finds a record whose lockedUntil has elapsed and whose
\* reset window has not is allowed and persists the record with lockedUntil
\* cleared and count and firstAttemptAt unchanged; within the reset window
\* neither a check nor a recorded attempt lowers the count
C7_ExpiredLockCleared ==
    /\ \A i \in CheckCalls :
           (HasRecord(bf[i]) /\ ~WindowExpired(bf[i]) /\ LockElapsed(bf[i]))
               => /\ bf[i].result.allowed
                  /\ bf[i].after # None
                  /\ bf[i].after[1].lockedUntil = None
                  /\ bf[i].after[1].count = bf[i].before[1].count
                  /\ bf[i].after[1].firstAttemptAt = bf[i].before[1].firstAttemptAt
    /\ \A i \in CheckCalls \cup RecordCalls :
           (HasRecord(bf[i]) /\ ~WindowExpired(bf[i]))
               => /\ bf[i].after # None
                  /\ bf[i].after[1].count >= bf[i].before[1].count

\* a check has cleared an elapsed lock within the reset window
C7_Witness ==
    \E i \in CheckCalls :
        /\ HasRecord(bf[i])
        /\ ~WindowExpired(bf[i])
        /\ LockElapsed(bf[i])
        /\ bf[i].after # None
        /\ bf[i].after[1].lockedUntil = None

\* the call found the guard Counting: a record, its window not expired, no
\* lock active
Counting(call) == HasRecord(call) /\ ~WindowExpired(call) /\ ~BeforeLockedUntil(call)

\* min(30000, 1000 * 2^(count - 2)) for count > 1, else 0
StatedDelay(count) ==
    IF count <= 1 THEN 0
    ELSE IF 1000 * Pow2(count - 2) < 30000 THEN 1000 * Pow2(count - 2) ELSE 30000

\* C8: in the Counting state a check is refused with requiredDelayMs =
\* delay - (now - lastAttemptAt) exactly when now - lastAttemptAt < delay,
\* and is otherwise allowed with requiredDelayMs = 0
C8_BackoffDelay ==
    \A i \in CheckCalls :
        Counting(bf[i]) =>
            LET delay == StatedDelay(bf[i].before[1].count)
                elapsed == bf[i].at - bf[i].before[1].lastAttemptAt
            IN IF elapsed < delay
               THEN ~bf[i].result.allowed /\ bf[i].result.requiredDelayMs = delay - elapsed
               ELSE bf[i].result.allowed /\ bf[i].result.requiredDelayMs = 0

\* a check refused by the backoff of the third attempt, part of it elapsed
C8_Witness ==
    \E i \in CheckCalls :
        /\ Counting(bf[i])
        /\ bf[i].before[1].count = 3
        /\ bf[i].at > bf[i].before[1].lastAttemptAt
        /\ ~bf[i].result.allowed
        /\ bf[i].result.requiredDelayMs = 1000

\* C9: when now - firstAttemptAt exceeds 30 minutes a check deletes the
\* record and returns allowed with 5 remaining attempts, and a recorded
\* attempt starts a new record with count 1 and no lock, whatever the
\* stored lockedUntil is
C9_WindowResets ==
    /\ \A i \in CheckCalls :
           (HasRecord(bf[i]) /\ WindowExpired(bf[i]))
               => /\ bf[i].after = None
                  /\ bf[i].result.allowed
                  /\ bf[i].result.remainingAttempts = 5
    /\ \A i \in RecordCalls :
           (HasRecord(bf[i]) /\ WindowExpired(bf[i]))
               => /\ bf[i].after # None
                  /\ bf[i].after[1].count = 1
                  /\ bf[i].after[1].firstAttemptAt = bf[i].at
                  /\ bf[i].after[1].lockedUntil = None
                  /\ ~bf[i].result.isLockedOut

\* a check made after the window expired and before the stored lockedUntil
C9_Witness ==
    \E i \in CheckCalls :
        /\ HasRecord(bf[i])
        /\ WindowExpired(bf[i])
        /\ BeforeLockedUntil(bf[i])
        /\ bf[i].after = None

\* C10: a check that finds no attempt record returns allowed, 5 remaining
\* attempts, no lockout and no delay, and stores no record; clearAttempts
\* leaves no record
C10_CleanCheck ==
    /\ \A i \in CheckCalls :
           ~HasRecord(bf[i])
               => /\ bf[i].result.allowed
                  /\ bf[i].result.remainingAttempts = 5
                  /\ bf[i].result.lockoutSecondsRemaining = None
                  /\ bf[i].result.requiredDelayMs = 0
                  /\ bf[i].after = None
    /\ \A i \in 1..Len(bf) : bf[i].op = "clear" => bf[i].after = None

\* the login screen checks the guard with no record stored for the account
C10_Witness ==
    /\ ret.op = "refreshBruteForceStatus"
    /\ state.hasAccount
    /\ \E i \in CheckCalls : ~HasRecord(bf[i]) /\ bf[i].result.allowed

\* the last step was a run of handleLogin that called loginAction: the guard
\* calls after the first are made only once the verification has returned
VerificationRun == ret.op = "login" /\ Len(bf) > 1

\* the stored record is locked and the lock has not expired at time t
LockedUnexpired(data, t) == data.lockedUntil # None /\ t < data.lockedUntil[1]

\* the backoff delay of the stored record is still outstanding at time t
BackoffOutstanding(data, t) == t - data.lastAttemptAt < StatedDelay(data.count)

\* C11: a run of handleLogin that verifies a password starts with a
\* checkBruteForce that returned allowed; a failed verification is followed
\* by exactly one recordFailedAttempt and a successful one by none; and the
\* record of the guard when the verification starts is neither locked and
\* unexpired nor within its backoff delay
C11_VerificationGuarded ==
    VerificationRun =>
        /\ bf[1].op = "check"
        /\ bf[1].result.allowed
        /\ IF ret.result
           THEN RecordCalls = {}
           ELSE RecordCalls = { 2 }
        /\ bf[1].after # None =>
               /\ ~LockedUnexpired(bf[1].after[1], bf[1].at)
               /\ ~BackoffOutstanding(bf[1].after[1], bf[1].at)

\* a wrong password is verified after the lock of five attempts has expired:
\* the check before it cleared the lock, and the attempt is recorded once
C11_Witness ==
    /\ VerificationRun
    /\ ~ret.result
    /\ bf[1].before # None
    /\ bf[1].before[1].lockedUntil # None
    /\ bf[1].after # None
    /\ bf[1].after[1].count = 5
    /\ bf[2].op = "record"

\* strings given to the comparison: of equal and of different lengths, with
\* the code unit 0 that out-of-bounds positions are read as
ComparedStrings == SeqsUpTo({ 0, 65 }, 2)

\* KDF(password, record.salt, record.iterations) in the encoding of record.hash
RecordKdf(password, record) ==
    uint8ArrayToBase64(deriveKey(password, base64ToUint8Array(record.salt).bytes,
                                 record.iterations, KeyLength))

\* C12: in every state, loginAction(password) returns true exactly when a
\* derived-key record is persisted and the KDF of the password under the
\* record's salt and iterations is the record's hash, the comparison being
\* true exactly for equal strings; on true the key cache holds that key and
\* isLoggedIn is true; on false the key cache, isLoggedIn and the persisted
\* records are unchanged
C12_LoginVerifies ==
    /\ \A a \in ComparedStrings, b \in ComparedStrings : timingSafeEqual(a, b) <=> (a = b)
    /\ \A password \in PasswordInputs :
       \A r \in { loginAction(World, password) } :
       \A record \in { getDerivedKeyInfo(secureStore) } :
           IF record # None /\ RecordKdf(password, record[1]) = record[1].hash
           THEN /\ r.result
                /\ getMemoryKey(r.mem, DERIVED_KEY) = Some(record[1].hash)
                /\ r.state.isLoggedIn
           ELSE /\ ~r.result
                /\ r.mem = memoryStore
                /\ r.state.isLoggedIn = state.isLoggedIn
                /\ r.store = secureStore

\* a password login succeeded on the login screen: the record is persisted
\* and the cached key is its hash
C12_Witness ==
    /\ ret.op = "login"
    /\ ret.result
    /\ ~ret.wasLoggedIn
    /\ state.isLoggedIn
    /\ getDerivedKeyInfo(secureStore) # None
    /\ getMemoryKey(memoryStore, DERIVED_KEY) = Some(getDerivedKeyInfo(secureStore)[1].hash)

\* the salt, hash and iterations of the persisted derived-key record
RecordIdentity(store) ==
    [salt |-> getDerivedKeyInfo(store)[1].salt,
     hash |-> getDerivedKeyInfo(store)[1].hash,
     iterations |-> getDerivedKeyInfo(store)[1].iterations]

\* C13: once a derived-key record is persisted, every step other than
\* resetApp keeps it with the same salt, hash and iterations
C13_RecordUnchanged ==
    [][getDerivedKeyInfo(secureStore) # None
           => IF ret'.op = "resetApp"
              THEN getDerivedKeyInfo(secureStore') = None
              ELSE /\ getDerivedKeyInfo(secureStore') # None
                   /\ RecordIdentity(secureStore') = RecordIdentity(secureStore)]_vars

\* C14: an enableBiometric that returns while the key cache holds no
\* session key returns false and leaves an error set, not by the resolution
\* of a platform challenge, and leaves the store as it was
C14_NoKeyEnableRefused ==
    [][(ret'.op = "enableBiometric" /\ Falsy(getMemoryKey(memoryStore', DERIVED_KEY)))
           => /\ ~ret'.result
              /\ gate'.error # "null"
              /\ gate'.challenge = gate.challenge
              /\ secureStore' = secureStore]_vars

\* a call of the gated hook
GateCall ==
    \/ AuthenticateCall
    \/ \E caps \in Capabilities : EnableBiometricCall(caps)
    \/ DisableBiometricCall

RejectedCalls ==
    { "authenticate rejected", "enableBiometric rejected", "disableBiometric rejected" }

\* C15: a call of authenticate, enableBiometric or disableBiometric made
\* while a call is pending returns at once with false, leaves the store, the
\* busy flag and the pending call as they were, and leaves nothing queued
C15_RejectedWhilePending ==
    [][(gate.pending # "none" /\ GateCall)
           => /\ ret'.op \in RejectedCalls
              /\ ~ret'.result
              /\ secureStore' = secureStore
              /\ gate' = gate
              /\ gate'.busy]_vars

\* disableBiometric was rejected while the challenge of authenticate is
\* showing, with the key and the config stored
C15_Witness ==
    /\ ret.op = "disableBiometric rejected"
    /\ gate.pending = "authenticate"
    /\ gate.challenge
    /\ gate.busy
    /\ secureStore[BIOMETRIC_KEY_STORAGE] # None
    /\ secureStore[BIOMETRIC_STORAGE_KEY] # None

\* the platform challenge of the pending call fails or times out
ChallengeFails ==
    \/ AuthenticateTimeout
    \/ \E result \in ChallengeResults \ { "success" } : AuthenticateSettles(result)

\* C16: an enableBiometric of the gated hook that was accepted, found
\* hardware, an enrolled biometric and a session key, and whose challenge
\* did not fail, returns true and leaves the session key in the gated store
\* and a config with enabled = true
C16_EnableSucceeds ==
    [][(/\ gate.pending = "enableBiometric"
        /\ gate'.pending = "none"
        /\ gate.caps.hasHardware
        /\ gate.caps.isEnrolled
        /\ ~Falsy(getMemoryKey(memoryStore, DERIVED_KEY))
        /\ ~ChallengeFails)
           => /\ ret'.op = "enableBiometric"
              /\ ret'.result
              /\ secureStore'[BIOMETRIC_KEY_STORAGE] =
                     Some([value |-> getMemoryKey(memoryStore, DERIVED_KEY)[1],
                           requireAuthentication |-> TRUE])
              /\ isEnabled(secureStore')]_vars

\* the stored biometric key is an item the platform reads only after a
\* biometric challenge
KeyItemGated(store) ==
    store[BIOMETRIC_KEY_STORAGE] # None
        => store[BIOMETRIC_KEY_STORAGE][1].requireAuthentication

\* C17: the biometric key is never stored as an ungated item, and a
\* loginWithBiometric that returned true read an item stored with
\* requireAuthentication, the only items whose read the platform challenges
C17_KeyOnlyThroughGate ==
    /\ KeyItemGated(secureStore)
    /\ (ret.op = "loginWithBiometric" /\ ret.result)
           => /\ secureStore[BIOMETRIC_KEY_STORAGE] # None
              /\ secureStore[BIOMETRIC_KEY_STORAGE][1].requireAuthentication

\* what ret.op is after a step of a biometric operation: a call of a hook
\* accepted, rejected or returned, retrieveBiometricKey, biometricLoginAction
BiometricOps ==
    { "pending", "authenticate", "enableBiometric", "disableBiometric",
      "retrieveBiometricKey", "loginWithBiometric" } \cup RejectedCalls

\* C18: retrieveBiometricKey returns null when the platform challenge is
\* cancelled or fails, and no step of a biometric operation creates, changes
\* or deletes the login-attempt record
C18_GuardUntouched ==
    [][/\ RetrieveBiometricKey(FALSE) => (ret'.op = "retrieveBiometricKey" /\ ~ret'.result)
       /\ ret'.op \in BiometricOps
              => secureStore'[ATTEMPTS_STORAGE_KEY] = secureStore[ATTEMPTS_STORAGE_KEY]]_vars

\* with a key and a login-attempt record stored, retrieveBiometricKey
\* returned null and the record is still there
C18_Witness ==
    /\ ret.op = "retrieveBiometricKey"
    /\ ~ret.result
    /\ secureStore[BIOMETRIC_KEY_STORAGE] # None
    /\ getAttemptData(secureStore) # None
    /\ getAttemptData(secureStore)[1].count = 1

\* neither the biometric key item nor the biometric config is stored
NoBiometricItems ==
    /\ secureStore[BIOMETRIC_KEY_STORAGE] = None
    /\ secureStore[BIOMETRIC_STORAGE_KEY] = None

C20_AuthenticateReturns ==
    /\ (gate.pending = "authenticate")
           ~> (ret.op = "authenticate" /\ gate.pending = "none" /\ ~gate.busy)
    /\ []((ret.op = "authenticate" /\ gate.elapsed = BIOMETRIC_TIMEOUT_MS) => ~ret.result)
    /\ [](ret.op = "authenticate" => ~gate.busy)

\* authenticate returned false because its timer fired, and released the flag
C20_Witness ==
    /\ ret.op = "authenticate"
    /\ ~ret.result
    /\ gate.elapsed = BIOMETRIC_TIMEOUT_MS
    /\ gate.error = "Authentication timeout"
    /\ gate.pending = "none"
    /\ ~gate.busy

\* the calls of the encryption layer the steps belong to
EncryptReturned == enc.status # "none" /\ dec.status = "none"
DecryptReturned == dec.status # "none"

Range(s) == { s[i] : i \in 1..Len(s) }

StepsThat(P(_)) == { i \in 1..Len(steps) : P(steps[i]) }

ReadsKeyOrDerives(step) ==
    step.do \in { "getMemoryKey", "getRandomBytesAsync", "deriveEncryptionKey",
                  "hmacSha256", "generateKeystream" }

KeyCached == memoryStore[DERIVED_KEY] # None

VaultItems == loadVaultData(secureStore).items

ItemsOf(store) == Range(loadVaultData(store).items)

WrittenIds == { w.id : w \in Range(written) }

WrittenOf(id) == CHOOSE w \in Range(written) : w.id = id

ItemUnder(id) == VaultItems[FindIndex(VaultItems, id)]

\* C21: with the session key cached, read(id) of an item returns exactly the
\* content last written under that id by create or update, whatever calls
\* were made on other items in between
C21_ReadReturnsWritten ==
    (ret.op = "read" /\ KeyCached /\ ret.args.id \in WrittenIds
                     /\ WrittenOf(ret.args.id).intact)
        => /\ ret.status = "ok"
           /\ ret.value = [content |-> WrittenOf(ret.args.id).content]

\* a created item read back after a call on the other item of the vault
C21_Witness ==
    /\ ret.op = "read"
    /\ ret.status = "ok"
    /\ Len(written) = 2
    /\ ret.args.id = written[1].id
    /\ written[1].content = << 34, 55357, 233, 65279 >>
    /\ ret.value.content = written[1].content

\* a Base64 text of n bytes
DecodesTo(text, n) ==
    \A decoded \in { base64ToUint8Array(text) } : decoded.ok /\ Len(decoded.bytes) = n

\* the bytes of a Base64 field are as many as those of the plaintext, and
\* are not those of the plaintext
CiphertextOf(text, plaintext) ==
    \A decoded \in { base64ToUint8Array(text) }, bytes \in { TextEncode(plaintext) } :
        /\ decoded.ok
        /\ Len(decoded.bytes) = Len(bytes)
        /\ decoded.bytes # bytes
        /\ text # plaintext
        /\ ~Contains(text, plaintext)

ContentHeldAsCiphertext(item) ==
    /\ DecodesTo(item.iv, IvLength)
    /\ item.iv \in { uint8ArrayToBase64(random.content) : random \in VaultRandom }
    /\ DecodesTo(item.hmac, DigestLength)

NameHeldAsCiphertext(item) ==
    /\ DecodesTo(item.nameIv, IvLength)
    /\ item.nameIv \in { uint8ArrayToBase64(random.name) : random \in VaultRandom }
    /\ DecodesTo(item.nameHmac, DigestLength)
    /\ item.nameIv # item.iv
    /\ item.nameHmac # item.hmac

\* the items list() returned, or none
Listed == IF ret.op = "list" THEN Range(ret.value) ELSE { }

\* C22: an item created or updated through the repository holds, in the
\* persisted vault and in the result of list(), its name and its content as
\* ciphertext only, each with an IV and a tag of its own
C22_NoPlaintextStored ==
    \A item \in ItemsOf(secureStore) \cup Listed :
        (item.id \in WrittenIds /\ WrittenOf(item.id).intact)
            => /\ ContentHeldAsCiphertext(item)
               /\ CiphertextOf(item.encryptedData,
                               StringifyContent([content |-> WrittenOf(item.id).content]))
               /\ NameHeldAsCiphertext(item)
               /\ WrittenOf(item.id).name # None
                      => CiphertextOf(item.name, WrittenOf(item.id).name[1])

MigrationErrors == { "outdated", "migration_needed" }

YieldsPlaintext(step) == step.on = "plaintext"

\* C23: read(id) ends in one of four ways: null, the migration error without
\* any call of decryptData, the integrity error, or the decrypted content;
\* the two errors come without plaintext
C23_FourOutcomes ==
    ret.op = "read"
        => /\ ret.status \in { "null", "integrity", "ok" } \cup MigrationErrors
           /\ ret.status \in MigrationErrors => steps = << >>
           /\ ret.status # "ok" => ret.value = << >> /\ StepsThat(YieldsPlaintext) = { }

NeedsMigration(item) ==
    item.hmac = << >> \/ item.timestamp = 0 \/ item.hmac = MIGRATION_NEEDED

\* C23, amended: read(id) throws the invalid-id error for an empty id,
\* returns null for an id the vault does not hold, throws the migration
\* error without any call of decryptData for an item of the old format or a
\* marked one, throws the no-key error when no session key is cached, throws
\* the integrity error, a decoding error or a parse error when the stored
\* fields are not what was written, and returns the decrypted content
\* otherwise; no error comes with plaintext
C23_ReadOutcomes ==
    ret.op = "read"
        => /\ IF ret.args.id = << >>
              THEN ret.status = "invalid_id" /\ steps = << >>
              ELSE IF ret.args.id \notin StoredIds
              THEN ret.status = "null" /\ steps = << >>
              ELSE IF NeedsMigration(ItemUnder(ret.args.id))
              THEN ret.status \in MigrationErrors /\ steps = << >>
              ELSE IF ~KeyCached
              THEN ret.status = "no_key" /\ StepsThat(YieldsPlaintext) = { }
              ELSE IF WrittenOf(ret.args.id).intact
              THEN ret.status = "ok"
              ELSE ret.status \in { "integrity", "invalid_character", "syntax_error" }
           /\ ret.status \notin { "ok", "syntax_error" } => StepsThat(YieldsPlaintext) = { }
           /\ ret.status # "ok" => ret.value = << >>

C23_Witness ==
    /\ ret.op = "read"
    /\ ret.status = "integrity"
    /\ ret.value = << >>

Marked(store, id) == \E item \in ItemsOf(store) : item.id = id /\ item.hmac = MIGRATION_NEEDED

Holds(store, id) == \E item \in ItemsOf(store) : item.id = id

ReadOfMarkedFails ==
    (ret.op = "read" /\ Marked(secureStore, ret.args.id)) => ret.status = "migration_needed"

UpdatedNow(id) == ret'.op = "update" /\ ret'.args.id = id /\ ret'.status = "ok"

ValidationErrors ==
    { "name_required", "name_empty", "name_too_long", "content_too_large", "invalid_id" }

\* the arguments of a create or update call the validation of the
\* repository rejects
InvalidArguments ==
    \/ validateContent(ret.args.content) # "none"
    \/ ret.op = "create" /\ validateName(ret.args.name).error # "none"
    \/ ret.op = "update" /\ ret.args.id = << >>
    \/ ret.op = "update" /\ ret.args.name # << >> /\ validateName(ret.args.name).error # "none"

\* C25: create and update called with an invalid name, content or id throw
\* a validation error without any step of encryptData, and leave the
\* persisted vault as it was
C25_ValidationBeforeEncryption ==
    (ret.op \in { "create", "update" } /\ InvalidArguments)
        => /\ ret.status \in ValidationErrors
           /\ steps = << >>
           /\ ~ret.changed

\* C27: with no session key cached, create, update of a stored item and
\* read of a stored item of the current format all throw, the no-key error
\* unless the arguments were refused before the key was asked for, and the
\* persisted vault is left as it was
C27_NoKeyNoVaultAccess ==
    (/\ ~KeyCached
     /\ ret.op \in { "create", "update", "read" }
     /\ ret.op # "create" => ret.args.id \in StoredIds
     /\ ret.op = "read" => ~NeedsMigration(ItemUnder(ret.args.id)))
        => /\ ~ret.changed
           /\ IF Did("getMemoryKey", "key") \in Range(steps)
              THEN /\ ret.status = "no_key"
                   /\ steps[Len(steps)] = Did("throw", "no_key")
                   /\ StepsThat(ReadsKeyOrDerives) = StepsThat(LAMBDA step : step.do = "getMemoryKey")
              ELSE /\ ret.op # "read"
                   /\ ret.status \in ValidationErrors \cup { "too_large" }

C27_Witness ==
    /\ ~KeyCached
    /\ ret.op = "read"
    /\ ret.args.id \in WrittenIds
    /\ ret.status = "no_key"

\* C26: for a plaintext whose UTF-8 encoding is longer than MAX_DATA_SIZE,
\* encryptData throws the size error without having read the session key,
\* drawn an IV or derived any key, whether or not a session key is cached
C26_OversizeFailsFirst ==
    (EncryptReturned /\ Len(TextEncode(enc.plaintext)) > MAX_DATA_SIZE)
        => /\ enc.status = "too_large"
           /\ StepsThat(ReadsKeyOrDerives) = { }
           /\ steps[Len(steps)] = Did("throw", "too_large")

C26_Witness ==
    /\ EncryptReturned
    /\ Len(TextEncode(enc.plaintext)) > MAX_DATA_SIZE
    /\ getMemoryKey(memoryStore, DERIVED_KEY) # None

IsComparison(step) == step.do = "compare"

UsesVerifiedData(step) ==
    \/ step.do \in { "deriveEncryptionKey", "generateKeystream", "xorBytes",
                     "TextDecoder.decode" }
    \/ step.on \in { "encryptionKey", "roundKey", "plaintext" }

\* C28: decryptData derives the subkey, generates keystream and produces
\* plaintext only after the comparison of the tags has run over the whole
\* computed tag and found them equal
C28_NothingBeforeTagVerified ==
    DecryptReturned
        => \A i \in StepsThat(UsesVerifiedData) :
               /\ dec.status = "ok"
               /\ Cardinality({ j \in StepsThat(IsComparison) : j < i }) = DigestLength

C28_Witness ==
    /\ DecryptReturned
    /\ dec.tampered
    /\ dec.status = "integrity"
    /\ StepsThat(IsComparison) # { }
    /\ StepsThat(UsesVerifiedData) = { }

\* C29: whenever decryptData has a provided tag to compare, it makes the
\* same number of byte comparisons, one for each byte of the computed tag,
\* whatever the length of the provided tag
C29_SameNumberOfComparisons ==
    (DecryptReturned /\ Did("base64ToUint8Array", "providedHmac") \in Range(steps))
        => Cardinality(StepsThat(IsComparison)) = DigestLength

KeyBuffers == { "keyBytes", "encryptionKey", "roundKey" }

\* C30: when encryptData or decryptData returns or throws, every buffer that
\* was given the master key bytes, the subkey or a round key has been
\* filled with zeros since
C30_KeyBuffersZeroed ==
    \A i \in 1..Len(steps) :
        (steps[i].on \in KeyBuffers /\ steps[i].do # "fill")
            => \E j \in (i + 1)..Len(steps) : steps[j] = Did("fill", steps[i].on)

\* an attempt record as the guard is to keep it
WellFormedAttemptData(data) ==
    /\ data.count >= 1
    /\ data.firstAttemptAt <= data.lastAttemptAt
    /\ data.lockedUntil # None
           => /\ data.count >= MAX_ATTEMPTS_BEFORE_LOCKOUT
              /\ data.lockedUntil[1] = data.lastAttemptAt + LOCKOUT_DURATION_MS

\* C31: the attempt record in the store, and every record a call of
\* recordFailedAttempt or checkBruteForce left there, has count >= 1 and
\* firstAttemptAt <= lastAttemptAt, and has a lockedUntil only with count >= 5,
\* which then is lastAttemptAt plus five minutes
C31_RecordWellFormed ==
    /\ \A data \in { getAttemptData(secureStore) } :
           data # None => WellFormedAttemptData(data[1])
    /\ \A i \in CheckCalls \cup RecordCalls :
           bf[i].after # None => WellFormedAttemptData(bf[i].after[1])

\* a check that found an elapsed lock and saved the record without it
C31_Witness ==
    \E i \in CheckCalls :
        /\ HasRecord(bf[i])
        /\ LockElapsed(bf[i])
        /\ bf[i].after # None
        /\ bf[i].after[1].lockedUntil = None
        /\ bf[i].after[1].count >= MAX_ATTEMPTS_BEFORE_LOCKOUT

(***************************************************************************)
(* The brute-force guard with two callers: each call reads the record at   *)
(* its first await and writes at its second, and the two calls interleave  *)
(***************************************************************************)
Callers == { 1, 2 }

\* calls begun in a behaviour
MaxRaceCalls == 3

\* clock advances in a behaviour
MaxRaceTicks == 2

NoCall == [op |-> "idle", at |-> 0, read |-> None]

\* variant: a call sees no record
AsReadNothing(store, item) == clearAttempts(store)

\* the store as a call saw it when getAttemptData returned
AsRead(store, item) == [store EXCEPT ![ATTEMPTS_STORAGE_KEY] = item]

InFlight == { c \in DOMAIN pending : pending[c].op # "idle" }

\* the record four failed attempts in a row leave
FourAttempts ==
    [count |-> MAX_ATTEMPTS_BEFORE_LOCKOUT - 1, firstAttemptAt |-> StartTime - 1,
     lastAttemptAt |-> StartTime, lockedUntil |-> None]

RaceInit ==
    /\ memoryStore = EmptyMemory
    /\ secureStore \in { EmptyStore, saveAttemptData(EmptyStore, FourAttempts) }
    /\ state = initialState
    /\ now = StartTime
    /\ ticks = 0
    /\ enc = NoEnc
    /\ dec = NoDec
    /\ bf = << >>
    /\ ret = NoRet
    /\ gate = NoGate
    /\ steps = << >>
    /\ written = << >>
    /\ pending = [c \in Callers |-> NoCall]
    /\ app = NoApp

\* const now = Date.now(); const data = await getAttemptData()
GuardReads(c, op) ==
    /\ pending[c].op = "idle"
    /\ Len(bf) + Cardinality(InFlight) < MaxRaceCalls
    /\ pending' = [pending EXCEPT ![c] = [op |-> op, at |-> now,
                                          read |-> secureStore[ATTEMPTS_STORAGE_KEY]]]
    /\ UNCHANGED << memoryStore, secureStore, state, now, ticks, enc, dec, bf, ret, gate,
                    steps, written, app >>

\* the rest of the call: what it computes from the record it read is
\* written over the record the store holds by then
GuardWrites(c, op, outcome) ==
    /\ secureStore' = IF outcome.store = AsRead(secureStore, pending[c].read)
                      THEN secureStore
                      ELSE outcome.store
    /\ bf' = Append(bf, [op |-> op, at |-> pending[c].at,
                         before |-> getAttemptData([secureStore EXCEPT
                                        ![ATTEMPTS_STORAGE_KEY] = pending[c].read]),
                         found |-> getAttemptData(secureStore),
                         after |-> getAttemptData(secureStore'),
                         result |-> outcome.result])
    /\ ret' = [op |-> op, result |-> TRUE, wasLoggedIn |-> state.isLoggedIn]
    /\ pending' = [pending EXCEPT ![c] = NoCall]
    /\ UNCHANGED << memoryStore, state, now, ticks, enc, dec, gate, steps, written, app >>

RecordReads(c) == GuardReads(c, "record")

RecordWrites(c) ==
    /\ pending[c].op = "record"
    /\ \E r \in { recordFailedAttempt(AsRead(secureStore, pending[c].read), pending[c].at) } :
           GuardWrites(c, "record", r)

CheckReads(c) == GuardReads(c, "check")

CheckWrites(c) ==
    /\ pending[c].op = "check"
    /\ \E r \in { checkBruteForce(AsRead(secureStore, pending[c].read), pending[c].at) } :
           GuardWrites(c, "check", r)

RaceTicks == { LOCKOUT_DURATION_MS, ATTEMPT_RESET_WINDOW_MS + 1 }

RaceTick(d) == ticks < MaxRaceTicks /\ Tick(d)

RaceNext ==
    \/ \E d \in RaceTicks : RaceTick(d)
    \/ \E c \in Callers : RecordReads(c)
    \/ \E c \in Callers : RecordWrites(c)
    \/ \E c \in Callers : CheckReads(c)
    \/ \E c \in Callers : CheckWrites(c)

SpecRace == RaceInit /\ [][RaceNext]_vars

\* no call wrote over a record other than the one it had read: what one
\* caller making its calls one after the other does
Sequential == \A i \in 1..Len(bf) : bf[i].before = bf[i].found

\* the first recordFailedAttempt found no record, and every call was made
\* within the reset window it opened
InOneWindow ==
    \E first \in RecordCalls :
        /\ \A i \in RecordCalls : first <= i
        /\ bf[first].before = None
        /\ \A i \in 1..Len(bf) : bf[i].at - bf[first].at <= ATTEMPT_RESET_WINDOW_MS

StoredCount ==
    LET data == getAttemptData(secureStore) IN IF data = None THEN 0 ELSE data[1].count

\* C32: n recordFailedAttempt calls made one after the other within one
\* reset window, from no record, leave the stored count at n; a call that
\* writes puts what it computed from the record it read over whatever the
\* store holds by then, a check saving the record it read without its lock
C32_SequentialCounts ==
    /\ (Sequential /\ InOneWindow) => StoredCount = Cardinality(RecordCalls)
    /\ \A i \in RecordCalls :
           bf[i].after # None /\ bf[i].before # None /\ ~WindowExpired(bf[i])
               => bf[i].after[1].count = bf[i].before[1].count + 1
    /\ \A i \in CheckCalls :
           (bf[i].after # bf[i].found /\ bf[i].after # None)
               => bf[i].after[1] = [bf[i].before[1] EXCEPT !.lockedUntil = None]

\* two recordFailedAttempt calls read the same record, and one update is lost
C32_Witness ==
    /\ InFlight = { }
    /\ InOneWindow
    /\ CheckCalls = { }
    /\ \E i \in RecordCalls : bf[i].before # bf[i].found
    /\ StoredCount < Cardinality(RecordCalls)

\* a recordFailedAttempt is lost to a checkBruteForce that clears an
\* elapsed lock
LostToCheck ==
    \E i \in CheckCalls :
        /\ HasRecord(bf[i])
        /\ LockElapsed(bf[i])
        /\ bf[i].found # None
        /\ bf[i].found[1].count = bf[i].before[1].count + 1
        /\ StoredCount = bf[i].before[1].count

(***************************************************************************)
(* The repository with one writer: items are created, renamed, updated,    *)
(* deleted and migrated, on an empty vault and on one of an earlier        *)
(* release                                                                 *)
(***************************************************************************)


\* the name given to create: " Vi", BEL, "sa"
CreatedNames == { << 32, 86, 105, 7, 115, 97 >> }

\* the name given to update: none, or BEL alone, which passes validateName
GivenNames == { << >>, << 7 >> }

FrameNext ==
    \/ VaultOpen /\ InitializeSecurity
    \/ VaultOpen /\ \E password \in AccountPasswords, saltBytes \in Salts :
                        SetupAction(password, saltBytes)
    \/ VaultOpen /\ \E password \in AccountPasswords : HandleLogin(password)
    \/ \E name \in CreatedNames, random \in VaultRandom : VaultCreate(name, << 66 >>, random)
    \/ VaultRead(<< 48 >>)
    \/ \E id \in CalledIds, name \in GivenNames, random \in VaultRandom :
           VaultUpdate(id, << 67 >>, name, random)
    \/ \E id \in CalledIds : VaultDelete(id)
    \/ \E random \in VaultRandom : VaultMigrate(random)

SpecFrame == VaultInit /\ [][FrameNext]_vars

ItemsIn(store) == loadVaultData(store).items

IdsIn(store) == { item.id : item \in Range(ItemsIn(store)) }

\* create appends one item and leaves the others as they were
FrameOfCreate ==
    (ret'.op = "create" /\ ret'.status = "ok")
        => /\ Len(ItemsIn(secureStore')) = Len(ItemsIn(secureStore)) + 1
           /\ SubSeq(ItemsIn(secureStore'), 1, Len(ItemsIn(secureStore))) = ItemsIn(secureStore)
           /\ ItemsIn(secureStore')[Len(ItemsIn(secureStore'))] = ret'.value

\* update keeps the id, type and createdAt of its item, and its name fields
\* when no name is given, and leaves the others as they were
FrameOfUpdate ==
    (ret'.op = "update" /\ ret'.status = "ok")
        => /\ Len(ItemsIn(secureStore')) = Len(ItemsIn(secureStore))
           /\ \A i \in 1..Len(ItemsIn(secureStore)) :
                  \A before \in { ItemsIn(secureStore)[i] }, after \in { ItemsIn(secureStore')[i] } :
                      IF before.id = ret'.args.id
                      THEN /\ after.id = before.id
                           /\ after.type = before.type
                           /\ after.createdAt = before.createdAt
                           /\ ret'.args.name = << >>
                                  => /\ after.name = before.name
                                     /\ after.nameIv = before.nameIv
                                     /\ after.nameHmac = before.nameHmac
                      ELSE after = before

\* delete removes its item and no other
FrameOfDelete ==
    ret'.op = "delete"
        => /\ ItemsIn(secureStore') =
                  SelectSeq(ItemsIn(secureStore), LAMBDA item : item.id # ret'.args.id)
           /\ ret'.value = (ret'.args.id \in IdsIn(secureStore))

\* an id the vault does not hold: null, null and false, and nothing written
FrameOfUnknownId ==
    (ret'.op \in { "read", "update", "delete" } /\ ret'.args.id # << >>
                                                 /\ ret'.args.id \notin IdsIn(secureStore))
        => /\ secureStore' = secureStore
           /\ IF ret'.op = "delete"
              THEN ret'.value = FALSE
              ELSE ret'.status = "null" /\ ret'.value = << >>

\* the metadata of a saved vault count its items
ItemCountSaved ==
    (ret'.op \in VaultOps /\ secureStore' # secureStore)
        => loadVaultData(secureStore').metadata.itemCount = Len(ItemsIn(secureStore'))

\* C33: create appends exactly one item and leaves the others unchanged;
\* update keeps the id, type and createdAt of its item, and its name fields
\* when no name is given, and leaves the others unchanged; delete removes its
\* item only; read, update and delete of an id the vault does not hold return
\* null, null and false and write nothing; every save stores an itemCount
\* equal to the number of items
C33_SingleWriterFrame ==
    [][FrameOfCreate /\ FrameOfUpdate /\ FrameOfDelete /\ FrameOfUnknownId /\ ItemCountSaved]_vars

\* an item renamed by update beside another item
C33_Witness ==
    /\ ret.op = "update"
    /\ ret.status = "ok"
    /\ ret.args.name # << >>
    /\ ret.changed
    /\ Len(VaultItems) = 2
    /\ loadVaultData(secureStore).metadata.itemCount = 2

FullyMigrated(item) ==
    /\ item.nameIv # << >>
    /\ item.nameHmac # << >>
    /\ (item.hmac # << >> /\ item.timestamp # 0) \/ item.hmac = MIGRATION_NEEDED

\* C34: when migrateToSecureFormat has returned with a session key cached,
\* every stored item has nameIv and nameHmac, and a content hmac and timestamp
\* or the MIGRATION_NEEDED marker; the number returned is the number of items
\* the call changed; a second call right after returns 0 and writes nothing
C34_MigrationCompletes ==
    /\ []((ret.op = "migrateToSecureFormat" /\ KeyCached)
              => \A item \in ItemsOf(secureStore) : FullyMigrated(item))
    /\ [][(ret'.op = "migrateToSecureFormat" /\ KeyCached)
              => /\ Len(ItemsIn(secureStore')) = Len(ItemsIn(secureStore))
                 /\ ret'.value = Cardinality({ i \in 1..Len(ItemsIn(secureStore)) :
                                                   ItemsIn(secureStore')[i] # ItemsIn(secureStore)[i] })
                 /\ ret.op = "migrateToSecureFormat"
                        => ret'.value = 0 /\ secureStore' = secureStore]_vars

\* the second of two calls, the first of which marked an item
C34_Witness ==
    /\ ret.op = "migrateToSecureFormat"
    /\ KeyCached
    /\ ret.value = 0
    /\ ~ret.changed
    /\ \E item \in ItemsOf(secureStore) : item.hmac = MIGRATION_NEEDED /\ item.nameIv # << >>

\* C40: the name encrypted for an item that create stored or update renamed
\* is not empty, has at most MAX_NAME_LENGTH characters and no control
\* character
C40_StoredNameSanitized ==
    \A item \in ItemsOf(secureStore) :
        (item.id \in WrittenIds /\ WrittenOf(item.id).name # None)
            => \A name \in { WrittenOf(item.id).name[1] } :
                   /\ Len(name) >= 1
                   /\ item.name # << >>
                   /\ Len(name) <= MAX_NAME_LENGTH
                   /\ \A i \in 1..Len(name) : ~IsControlChar(name[i])

(***************************************************************************)
(* The lifecycle hook: the platform reports the changes of AppState while  *)
(* the clock advances; the screens are used in the foreground only         *)
(***************************************************************************)
DEFAULT_LIFECYCLE_CONFIG ==
    [lockOnBackground |-> TRUE, inactivityTimeout |-> 300000, backgroundGracePeriod |-> 5000]

AppStates == { "active", "inactive", "background" }

\* handleAppStateChange(nextAppState), called on a change of AppState
HandleAppStateChange(nextAppState) ==
    /\ nextAppState # app.appState
    /\ \E locks \in { /\ state.isLoggedIn
                      /\ nextAppState = "active"
                      /\ Truthy(app.backgroundTime)
                      /\ DEFAULT_LIFECYCLE_CONFIG.lockOnBackground
                      /\ now - app.backgroundTime[1]
                             > DEFAULT_LIFECYCLE_CONFIG.backgroundGracePeriod } :
       \E r \in { IF locks THEN lockAction(World) ELSE Returned(secureStore) } :
           /\ memoryStore' = r.mem
           /\ secureStore' = r.store
           /\ state' = r.state
           /\ bf' = << >>
           /\ ret' = [op |-> "handleAppStateChange", result |-> locks,
                      wasLoggedIn |-> state.isLoggedIn, nextAppState |-> nextAppState,
                      away |-> IF app.leftActiveAt = None THEN 0
                               ELSE now - app.leftActiveAt[1]]
           /\ app' = [appState |-> nextAppState,
                      backgroundTime |-> IF ~state.isLoggedIn THEN app.backgroundTime
                                         ELSE IF nextAppState = "active" THEN None
                                         ELSE Some(now),
                      leftActiveAt |-> IF nextAppState = "active" THEN None
                                       ELSE IF app.appState = "active" THEN Some(now)
                                       ELSE app.leftActiveAt]
    /\ UNCHANGED << now, ticks, enc, dec, gate, steps, written, pending >>

Foreground == app.appState = "active"

\* the time that passes between two events
AwayTimes == { 3000, DEFAULT_LIFECYCLE_CONFIG.backgroundGracePeriod }

LifecycleNext ==
    \/ Foreground /\ InitializeSecurity
    \/ Foreground /\ \E password \in AccountPasswords, saltBytes \in Salts :
                         SetupAction(password, saltBytes)
    \/ Foreground /\ HandleLogout
    \/ Foreground /\ \E password \in AccountPasswords : HandleLogin(password)
    \/ \E d \in AwayTimes : Tick(d)
    \/ \E nextAppState \in AppStates : HandleAppStateChange(nextAppState)

SpecLifecycle == Init /\ [][LifecycleNext]_vars

\* C35: when the app returns to 'active' with the user logged in, lockAction
\* is invoked if and only if more than backgroundGracePeriod has passed since
\* the app left 'active'
C35_LockedIffAwayTooLong ==
    (ret.op = "handleAppStateChange" /\ ret.nextAppState = "active" /\ ret.wasLoggedIn)
        => (ret.result <=> ret.away > DEFAULT_LIFECYCLE_CONFIG.backgroundGracePeriod)

(***************************************************************************)
(* The actions of the security context split at their awaits.  A step is   *)
(* the completion of one await and the code up to the next one; pending[c] *)
(* holds what the call c has read so far and the await it stands at.       *)
(***************************************************************************)
\* the calls a behaviour makes
MaxAwaitCalls == 3

\* no call in flight; begun counts the calls the caller has made
Idle(begun) ==
    [op |-> "idle", pc |-> "none", password |-> << >>, held |-> << >>, begun |-> begun]

\* the call the caller c starts
Call(c, op, pc, password) ==
    [op |-> op, pc |-> pc, password |-> password, held |-> << >>,
     begun |-> pending[c].begun + 1]

RECURSIVE BegunBy(_)
BegunBy(cs) ==
    IF cs = {} THEN 0
    ELSE Bind(CHOOSE c \in cs : TRUE, LAMBDA c : pending[c].begun + BegunBy(cs \ { c }))

\* the caller c is free to start a call
Free(c) == pending[c].op = "idle" /\ BegunBy(Callers) < MaxAwaitCalls

\* the device of a user who set up an account, enabled biometric login and
\* logged out
EnrolledWorld ==
    Bind(setupAction([mem |-> EmptyMemory, store |-> EmptyStore, state |-> initialState],
                     << 118, 97, 117, 108, 116, 45, 112, 97, 115, 115, 45, 49 >>,
                     [i \in 1..SaltLength |-> 15 * i], StartTime),
         LAMBDA w :
    Bind(enableBiometric(w, [hasHardware |-> TRUE, isEnrolled |-> TRUE, type |-> "face"],
                         TRUE, StartTime),
         LAMBDA e :
    logoutAction([w EXCEPT !.store = e.store])))

\* the provider mounted on a fresh install, or on the device of an enrolled
\* user
AwaitInit ==
    /\ \E w \in { initializeSecurity([mem |-> EmptyMemory, store |-> EmptyStore,
                                      state |-> initialState]),
                  EnrolledWorld } :
           /\ memoryStore = w.mem
           /\ secureStore = w.store
           /\ state = w.state
    /\ now = StartTime
    /\ ticks = 0
    /\ enc = NoEnc
    /\ dec = NoDec
    /\ bf = << >>
    /\ ret = NoRet
    /\ gate = NoGate
    /\ steps = << >>
    /\ written = << >>
    /\ pending = [c \in Callers |-> Idle(0)]
    /\ app = NoApp

\* the step of call c that leaves the world r; next is where the call
\* stands afterwards
Resumes(c, r, next) ==
    /\ memoryStore' = r.mem
    /\ secureStore' = r.store
    /\ state' = r.state
    /\ pending' = [pending EXCEPT ![c] = next]
    /\ UNCHANGED << now, ticks, enc, dec, bf, ret, gate, steps, written, app >>

\* the last step of call c: it leaves the world r and returns r.result
Completes(c, op, r) ==
    /\ memoryStore' = r.mem
    /\ secureStore' = r.store
    /\ state' = r.state
    /\ pending' = [pending EXCEPT ![c] = Idle(pending[c].begun)]
    /\ ret' = [op |-> op, result |-> r.result, wasLoggedIn |-> state.isLoggedIn]
    /\ UNCHANGED << now, ticks, enc, dec, bf, gate, steps, written, app >>

\* setState(prev => ({ ...prev, isLoading: true, error: null }))
Loading(w) == [w EXCEPT !.state = [w.state EXCEPT !.isLoading = TRUE, !.error = "null"]]

At(c, op, pc) == pending[c].op = op /\ pending[c].pc = pc

SetupBegins(c, password) ==
    /\ Free(c)
    /\ Resumes(c, Loading(World),
               Call(c, "setup", "getRandomBytesAsync", password))

\* the keys deriveKey returns for the passwords and salts of the calls
DerivedKeys ==
    { [password |-> password, salt |-> saltBytes,
       key |-> uint8ArrayToBase64(deriveKey(password, saltBytes, Iterations, KeyLength))] :
          password \in Passwords, saltBytes \in Salts }

\* uint8ArrayToBase64(await deriveKey(password, salt, iterations, keyLength))
derivedKeyBase64Of(password, salt, iterations) ==
    IF iterations = Iterations /\ \E k \in DerivedKeys : k.password = password /\ k.salt = salt
    THEN (CHOOSE k \in DerivedKeys : k.password = password /\ k.salt = salt).key
    ELSE uint8ArrayToBase64(deriveKey(password, salt, iterations, KeyLength))

\* the salt arrives and the key is derived from it
SetupDerives(c, saltBytes) ==
    /\ At(c, "setup", "getRandomBytesAsync")
    /\ \E derivedKeyBase64 \in
           { derivedKeyBase64Of(pending[c].password, saltBytes, Iterations) } :
           Resumes(c, World,
                   [pending[c] EXCEPT !.pc = "setSecureObject",
                                      !.held = << [salt |-> uint8ArrayToBase64(saltBytes),
                                                   hash |-> derivedKeyBase64,
                                                   iterations |-> Iterations,
                                                   createdAt |-> now] >>])

\* the record is written, the key cached and the state set
SetupCompletes(c) ==
    /\ At(c, "setup", "setSecureObject")
    /\ Completes(c, "setup",
           [mem |-> setMemoryKey(memoryStore, DERIVED_KEY, pending[c].held[1].hash),
            store |-> setSecureItem(secureStore, STORAGE_KEYS.DERIVED_KEY_INFO,
                                    StringifyDerivedKeyInfo(pending[c].held[1])),
            state |-> LoggedInState,
            result |-> TRUE])

LoginBegins(c, password) ==
    /\ Free(c)
    /\ Resumes(c, Loading(World),
               Call(c, "login", "getSecureObject", password))

\* the record arrives: none ends the call, one starts the derivation
LoginReads(c) ==
    /\ At(c, "login", "getSecureObject")
    /\ \E storedKeyInfo \in { getDerivedKeyInfo(secureStore) } :
           IF storedKeyInfo = None
           THEN Completes(c, "login", Failed(World, "No account found"))
           ELSE Resumes(c, World,
                        [pending[c] EXCEPT !.pc = "deriveKey", !.held = storedKeyInfo])

\* the derived key arrives and is compared with the hash that was read
LoginCompletes(c) ==
    /\ At(c, "login", "deriveKey")
    /\ \E storedKeyInfo \in { pending[c].held[1] } :
       \E salt \in { base64ToUint8Array(storedKeyInfo.salt) } :
           IF ~salt.ok
           THEN Completes(c, "login", Failed(World, "Login failed"))
           ELSE \E derivedKeyBase64 \in
                    { derivedKeyBase64Of(pending[c].password, salt.bytes,
                                         storedKeyInfo.iterations) } :
                    IF ~timingSafeEqual(derivedKeyBase64, storedKeyInfo.hash)
                    THEN Completes(c, "login", Failed(World, "Invalid password"))
                    ELSE Completes(c, "login",
                             [mem |-> setMemoryKey(memoryStore, DERIVED_KEY, derivedKeyBase64),
                              store |-> secureStore,
                              state |-> LoggedInState,
                              result |-> TRUE])

BiometricBegins(c) ==
    /\ Free(c)
    /\ Resumes(c, Loading(World),
               Call(c, "loginWithBiometric", "getSecureItem", << >>))

\* the gated key arrives: none ends the call
BiometricReads(c) ==
    /\ At(c, "loginWithBiometric", "getSecureItem")
    /\ \E storedKey \in { getSecureItem(secureStore, BIOMETRIC_KEY_STORAGE) } :
           IF Falsy(storedKey)
           THEN Completes(c, "loginWithBiometric",
                          Failed(World, "Biometric key not found. Please use password."))
           ELSE Resumes(c, World,
                        [pending[c] EXCEPT !.pc = "getSecureObject", !.held = storedKey])

\* the record arrives: with one, the key that was read is cached
BiometricCompletes(c) ==
    /\ At(c, "loginWithBiometric", "getSecureObject")
    /\ IF getDerivedKeyInfo(secureStore) = None
       THEN Completes(c, "loginWithBiometric", Failed(World, "No account found"))
       ELSE Completes(c, "loginWithBiometric",
                [mem |-> setMemoryKey(memoryStore, DERIVED_KEY, pending[c].held[1]),
                 store |-> secureStore,
                 state |-> LoggedInState,
                 result |-> TRUE])

\* setState isLoading, clearAllMemory(), and the call waits for the store
ResetBegins(c) ==
    /\ Free(c)
    /\ Resumes(c, [mem |-> clearAllMemory(memoryStore), store |-> secureStore,
                   state |-> [state EXCEPT !.isLoading = TRUE]],
               Call(c, "resetApp", "clearAllSecureStorage", << >>))

ResetClears(c) ==
    /\ At(c, "resetApp", "clearAllSecureStorage")
    /\ Resumes(c, [World EXCEPT !.store = clearAllSecureStorage(secureStore)],
               [pending[c] EXCEPT !.pc = "removeSecureItem(BIOMETRIC_KEY_STORAGE)"])

ResetRemovesKey(c) ==
    /\ At(c, "resetApp", "removeSecureItem(BIOMETRIC_KEY_STORAGE)")
    /\ Resumes(c, [World EXCEPT !.store = removeSecureItem(secureStore, BIOMETRIC_KEY_STORAGE)],
               [pending[c] EXCEPT !.pc = "removeSecureItem(BIOMETRIC_STORAGE_KEY)"])

\* the config is removed and the state set
ResetCompletes(c) ==
    /\ At(c, "resetApp", "removeSecureItem(BIOMETRIC_STORAGE_KEY)")
    /\ Completes(c, "resetApp",
           [mem |-> memoryStore,
            store |-> removeSecureItem(secureStore, BIOMETRIC_STORAGE_KEY),
            state |-> [isInitialized |-> TRUE, isLoggedIn |-> FALSE, hasAccount |-> FALSE,
                       isLoading |-> FALSE, error |-> "null"],
            result |-> TRUE])

AwaitNext ==
    \/ \E c \in Callers, password \in Passwords : SetupBegins(c, password)
    \/ \E c \in Callers, saltBytes \in Salts : SetupDerives(c, saltBytes)
    \/ \E c \in Callers : SetupCompletes(c)
    \/ \E c \in Callers, password \in Passwords : LoginBegins(c, password)
    \/ \E c \in Callers : LoginReads(c)
    \/ \E c \in Callers : LoginCompletes(c)
    \/ \E c \in Callers : BiometricBegins(c)
    \/ \E c \in Callers : BiometricReads(c)
    \/ \E c \in Callers : BiometricCompletes(c)
    \/ \E c \in Callers : ResetBegins(c)
    \/ \E c \in Callers : ResetClears(c)
    \/ \E c \in Callers : ResetRemovesKey(c)
    \/ \E c \in Callers : ResetCompletes(c)
    \/ HandleLogout
    \/ AutoLock
    \/ \E caps \in Capabilities, authenticated \in BOOLEAN : EnableBiometric(caps, authenticated)
    \/ DisableBiometric

SpecAwaits == AwaitInit /\ [][AwaitNext]_vars

\* C36: in every state the key cache holds a session key if and only if
\* isLoggedIn is true
C36_KeyCachedIffLoggedIn == KeyCached <=> state.isLoggedIn

\* the derived-key record that is persisted
PersistedRecord == getDerivedKeyInfo(secureStore)

\* C37: whenever isLoggedIn is true a derived-key record is persisted and
\* hasAccount is true, whatever resetApp did while a login, a biometric login
\* or a setup was in flight
C37_LoggedInHasRecord == state.isLoggedIn => (PersistedRecord # None /\ state.hasAccount)

\* the call c is a biometric login that returns true in this step
BiometricLoginSucceeds(c) ==
    /\ At(c, "loginWithBiometric", "getSecureObject")
    /\ pending'[c].op = "idle"
    /\ ret'.result

\* C38: when loginWithBiometric returns true, the session key it cached is
\* the hash of the derived-key record persisted at that moment
C38_BiometricKeyOfAccount ==
    [][\A c \in Callers :
           BiometricLoginSucceeds(c) =>
               \A record \in { getDerivedKeyInfo(secureStore') } :
                   record # None /\ memoryStore'[DERIVED_KEY] = Some(record[1].hash)]_vars

(***************************************************************************)
(* The gated hook when the store fails: SecureStore.deleteItemAsync        *)
(* removes the item or throws                                              *)
(***************************************************************************)
DeleteOutcomes == { "removed", "throws" }

\* removeSecureItem with the outcome of deleteItemAsync: its catch logs the
\* error and returns
removeSecureItemWith(store, key, outcome) ==
    IF outcome = "throws" THEN store ELSE removeSecureItem(store, key)

\* the two removals of disableBiometric, the first a direct call of
\* deleteItemAsync whose throw the catch of disableBiometric reports
DisableBiometricSettles(keyDeletion, configDeletion) ==
    /\ gate.pending = "disableBiometric"
    /\ IF keyDeletion = "throws"
       THEN GateStep("disableBiometric", FALSE, secureStore,
                     [Released(gate) EXCEPT !.error = "Failed to disable biometric"])
       ELSE GateStep("disableBiometric", TRUE,
                     removeSecureItemWith(removeSecureItem(secureStore, BIOMETRIC_KEY_STORAGE),
                                          BIOMETRIC_STORAGE_KEY, configDeletion),
                     Released(gate))

FaultNext ==
    \/ GateNext
    \/ \E keyDeletion \in DeleteOutcomes, configDeletion \in DeleteOutcomes :
           DisableBiometricSettles(keyDeletion, configDeletion)

SpecFaults == Init /\ [][FaultNext]_vars

\* a step of an enableBiometric call that has not returned true
EnableBiometricFailing ==
    \/ ret'.op \in { "enableBiometric", "enableBiometric rejected" } /\ ~ret'.result
    \/ ret'.op = "pending" /\ gate'.pending = "enableBiometric"

GatedKeyPresent == secureStore[BIOMETRIC_KEY_STORAGE] # None

\* C39: an enableBiometric that returns false leaves the gated key store and
\* the biometric config as they were, and whenever the stored config has
\* enabled = true the gated key is present
C39_FailedEnableLeavesNoTrace ==
    /\ [](isEnabled(secureStore) => GatedKeyPresent)
    /\ [][EnableBiometricFailing =>
              /\ secureStore'[BIOMETRIC_KEY_STORAGE] = secureStore[BIOMETRIC_KEY_STORAGE]
              /\ secureStore'[BIOMETRIC_STORAGE_KEY] = secureStore[BIOMETRIC_STORAGE_KEY]]_vars

====
